---------------------------- MODULE Spec2Model ----------------------------
(***************************************************************************)
(* Firestarter: provider selection (firestarter.config.ts), the query      *)
(* route (app/api/firestarter/query/route.ts), the OpenAI-compatible       *)
(* chat-completions endpoint (app/api/v1/chat/completions/route.ts and its *)
(* Google variant), the index metadata store (lib/storage.ts and           *)
(* hooks/useStorage.ts), the create route and the scrape route, modelled   *)
(* as state machines.                                                      *)
(***************************************************************************)
EXTENDS Integers, Sequences, FiniteSets, TLC

VARIABLES
  env,        \* process.env: credential name -> Undefined, "" or a key
  onServer,   \* typeof window === 'undefined'
  aiResult,   \* outcome of the last getAIModel() call
  index,      \* the shared Upstash Search index: a sequence of documents
  qpc,        \* query route: where the handler of the current request stands
  qreq,       \* query route: the parsed request body
  documents,  \* query route: `documents` (route.ts:34)
  sawForeign, \* query route: a search returned a document of another namespace
  usedFallback, \* query route: the fallback search (route.ts:72) was made
  llmCalls,   \* query route: requests sent to the LLM provider so far
  docsToUse,  \* query route: `docsToUse` (route.ts:259)
  context,    \* query route: the pieces joined into `context` (route.ts:274)
  qres,       \* query route: the response (status and JSON payload)
  qbody,      \* query route: the response body written so far, as wire tokens
  qclosed,    \* query route: the response body is complete
  qchunks,    \* query route: chunks received from the LLM stream so far
  cpc,        \* chat completions: where the handler of the current request stands
  creq,       \* chat completions: the request (handler, headers, body)
  fetches,    \* chat completions: the upstream requests sent, in order
  held,       \* chat completions: `openaiData` kept across the follow-up call
  cres,       \* chat completions: the response (status, payload)
  rdpos,      \* chat completions: tokens of the query route's body read so far
  buffer,     \* chat completions: `buffer` (route.ts:259)
  out,        \* chat completions: what the response stream has enqueued
  cclosed,    \* chat completions: the response stream's state
  redisEnv,   \* process.env: UPSTASH_REDIS_REST_URL and UPSTASH_REDIS_REST_TOKEN
  storage,    \* lib/storage.ts: `storage`, the lazily created adapter
  localItem,  \* localStorage['firestarter_indexes'], parsed
  redisList,  \* Redis: the value of 'firestarter:indexes'
  redisRecs,  \* Redis: namespace -> the value of 'firestarter:index:<namespace>'
  spc,        \* storage: caller -> where its call stands
  scall,      \* storage: caller -> the call it makes (operation and argument)
  sidx,       \* storage: caller -> its local `indexes`
  sret,       \* storage: caller -> what its last call returned
  ioErrors,   \* storage: Redis or localStorage operations that have thrown
  calls,      \* storage: calls started so far
  hook,       \* useStorage: mounted, its state `indexes`, and its last call
  kenv,       \* process.env: the variables the create and scrape routes read
  kpc,        \* create route: where the handler of the current request stands
  kreq,       \* create route: the request (handler, body, API-key header)
  knamespace, \* create route: `namespace` (line 33)
  kpages,     \* create route: crawlResponse.data.length
  kres,       \* create route: the response (status, namespace)
  crawls,     \* create route: the crawls started at Firecrawl, in order
  upserted,   \* create route: the batches upserted into the search index
  saved,      \* create route: the index metadata handed to saveIndex
  limiter,    \* scrape route: ip -> requests counted in the current window
  rpc,        \* scrape route: where the handler of the current request stands
  rreq,       \* scrape route: the request (ip, body, API-key header)
  rres,       \* scrape route: the response (status, headers)
  scrapes,    \* scrape route: the calls made to Firecrawl, in order
  clock,      \* concurrent create requests: what Date.now() returns
  creators,   \* concurrent create requests: request -> its handler's state
  searchDocs  \* concurrent create requests: document id -> the request that
              \* upserted the document stored under it

provVars == <<onServer, aiResult>>
queryVars == <<qpc, qreq, documents, sawForeign, usedFallback, llmCalls,
               docsToUse, context, qres, qbody, qclosed, qchunks>>
chatVars == <<cpc, creq, fetches, held, cres, rdpos, buffer, out, cclosed>>
storeVars == <<redisEnv, storage, localItem, redisList, redisRecs, spc, scall,
               sidx, sret, ioErrors, calls, hook>>
createVars == <<kpc, kreq, knamespace, kpages, kres, crawls, upserted, saved>>
scrapeVars == <<limiter, rpc, rreq, rres, scrapes>>
raceVars == <<clock, creators, searchDocs>>
vars == <<env, index, provVars, queryVars, chatVars, storeVars, kenv, createVars,
          scrapeVars, raceVars>>

\* What each part of the program leaves alone.
frameP == <<env, index, queryVars, chatVars, storeVars, kenv, createVars, scrapeVars,
           raceVars>>
frameQ == <<env, index, provVars, chatVars, storeVars, kenv, createVars, scrapeVars,
           raceVars>>
frameC == <<env, index, provVars, storeVars, kenv, createVars, scrapeVars,
           raceVars>>
frameS == <<env, index, provVars, queryVars, chatVars, kenv, createVars, scrapeVars,
           raceVars>>
frameK == <<env, index, provVars, queryVars, chatVars, storeVars, kenv, scrapeVars,
           raceVars>>
frameR == <<env, index, provVars, queryVars, chatVars, storeVars, kenv, createVars,
           raceVars>>

frameX == <<env, index, provVars, queryVars, chatVars, storeVars, kenv, createVars,
           scrapeVars>>

---------------------------------------------------------------------------
(* process.env *)

Undefined == "undefined"

CredNames == {"OPENAI_API_KEY", "ANTHROPIC_API_KEY",
              "GOOGLE_AI_STUDIO_API_KEY", "GROQ_API_KEY"}

\* A variable is absent, present but empty, or present with a value.
EnvValues == {Undefined, "", "key"}

Envs == [CredNames -> EnvValues]

\* JavaScript truthiness of an environment value: !!process.env.X
Truthy(v) == v # Undefined /\ v # ""

---------------------------------------------------------------------------
(* firestarter.config.ts: AI_PROVIDERS and getAIModel *)

AI_PROVIDERS(e) ==
  [ groq      |-> [ model   |-> [provider |-> "groq",
                                 model |-> "meta-llama/llama-4-scout-17b-16e-instruct"],
                    enabled |-> Truthy(e["GROQ_API_KEY"]) ],
    openai    |-> [ model   |-> [provider |-> "openai", model |-> "gpt-4o"],
                    enabled |-> Truthy(e["OPENAI_API_KEY"]) ],
    anthropic |-> [ model   |-> [provider |-> "anthropic",
                                 model |-> "claude-3-5-sonnet-20241022"],
                    enabled |-> Truthy(e["ANTHROPIC_API_KEY"]) ],
    google    |-> [ model   |-> [provider |-> "google", model |-> "gemini-2.5-flash"],
                    enabled |-> Truthy(e["GOOGLE_AI_STUDIO_API_KEY"]) ] ]

Return(v) == [kind |-> "return", value |-> v]
\* An Error's message, as its leading sentence and the rest of the text.
Throw(head, rest) == [kind |-> "throw", message |-> <<head, rest>>]
Null == [provider |-> "null", model |-> "null"]

NoProviderMessageRest ==
  ". Please set OPENAI_API_KEY, ANTHROPIC_API_KEY, GOOGLE_AI_STUDIO_API_KEY, or GROQ_API_KEY"

\* Mutant: the providers are consulted in the order AI_PROVIDERS lists them.
getAIModel_DeclarationOrder(e, server) ==
  LET P == AI_PROVIDERS(e) IN
  IF ~server THEN Return(Null)
  ELSE IF P.groq.enabled THEN Return(P.groq.model)
  ELSE IF P.openai.enabled THEN Return(P.openai.model)
  ELSE IF P.anthropic.enabled THEN Return(P.anthropic.model)
  ELSE IF P.google.enabled THEN Return(P.google.model)
  ELSE Throw("No AI provider configured", NoProviderMessageRest)

\* Mutant: with no provider enabled the function falls through to null.
getAIModel_NullWhenNone(e, server) ==
  LET P == AI_PROVIDERS(e) IN
  IF ~server THEN Return(Null)
  ELSE IF P.openai.enabled THEN Return(P.openai.model)
  ELSE IF P.anthropic.enabled THEN Return(P.anthropic.model)
  ELSE IF P.google.enabled THEN Return(P.google.model)
  ELSE IF P.groq.enabled THEN Return(P.groq.model)
  ELSE Return(Null)

getAIModel(e, server) ==
  LET P == AI_PROVIDERS(e) IN
  IF ~server THEN Return(Null)
  ELSE IF P.openai.enabled THEN Return(P.openai.model)
  ELSE IF P.anthropic.enabled THEN Return(P.anthropic.model)
  ELSE IF P.google.enabled THEN Return(P.google.model)
  ELSE IF P.groq.enabled THEN Return(P.groq.model)
  ELSE Throw("No AI provider configured", NoProviderMessageRest)

NotCalled == [kind |-> "not-called"]

\* One call of getAIModel() in the process whose environment is env.
CallGetAIModel ==
  /\ aiResult = NotCalled
  /\ aiResult' = getAIModel(env, onServer)
  /\ UNCHANGED <<env, onServer, frameP>>

---------------------------------------------------------------------------
(* Text and lengths *)

Min(a, b) == IF a <= b THEN a ELSE b

\* A text is a sequence of symbols; a fixed message is one symbol.
NoDocsAnswer ==
  <<"I don't have any indexed content for this website. Please make sure the website has been crawled first.">>
NotConfiguredAnswer ==
  <<"AI service is not configured. Please set OPENAI_API_KEY in your environment variables.">>
ContextTooShortAnswer ==
  <<"I found some relevant pages but couldn't extract enough content to answer your question. This might be due to the way the pages were crawled. Try crawling the website again with a higher page limit.">>
ApologyAnswer ==
  <<"I apologize, but I couldn't generate a response. Please try rephrasing your question.">>
AuthFailedAnswer ==
  <<"Error: OpenAI API authentication failed. Please check your OPENAI_API_KEY.">>
RateLimitAnswer ==
  <<"Error: OpenAI API rate limit exceeded. Please try again later.">>
ErrorGeneratingAnswer == <<"Error generating response: ">>

---------------------------------------------------------------------------
(* Strings the program takes apart or puts together: a string is the       *)
(* sequence of its characters.                                              *)

\* s.startsWith(prefix)
StartsWith(s, prefix) ==
  Len(s) >= Len(prefix) /\ SubSeq(s, 1, Len(prefix)) = prefix

\* s.substring(start)
Substring(s, start) == SubSeq(s, start + 1, Len(s))

\* hostname.replace(/\./g, '-')
ReplaceDots(s) == [i \in 1..Len(s) |-> IF s[i] = "." THEN "-" ELSE s[i]]

Digit(d) ==
  CASE d = 0 -> "0" [] d = 1 -> "1" [] d = 2 -> "2" [] d = 3 -> "3" [] d = 4 -> "4"
    [] d = 5 -> "5" [] d = 6 -> "6" [] d = 7 -> "7" [] d = 8 -> "8" [] OTHER -> "9"

RECURSIVE Decimal(_)
\* `${timestamp}`: a number written in decimal
Decimal(n) == IF n < 10 THEN <<Digit(n)>> ELSE Append(Decimal(n \div 10), Digit(n % 10))

\* create route, lines 31-33: `${baseNamespace}-${timestamp}`
Namespace(hostname, timestamp) ==
  LET baseNamespace == ReplaceDots(hostname)
  IN baseNamespace \o <<"-">> \o Decimal(timestamp)

\* dashboard/page.tsx:408: `firecrawl-${siteData.namespace}`
FirecrawlPrefix == <<"f", "i", "r", "e", "c", "r", "a", "w", "l", "-">>
ModelName(namespace) == FirecrawlPrefix \o namespace

\* The namespaces of the documents in the search index.
NsA == Namespace(<<"a", ".", "b">>, 7)
NsB == Namespace(<<"c">>, 12)

\* metadata.namespace of a document that carries none: no string equals it.
NoNamespace == <<Undefined>>

---------------------------------------------------------------------------
(* The shared search index (lib/upstash-search.ts) *)

NumDocs == 11      \* documents of namespace NsA in the large index
SmallDocs == 2     \* documents of namespace NsA in the small index
MaxChunks == 2     \* chunks an LLM stream delivers at most

\* A stored document: metadata.namespace, the score the service reports,
\* and the lengths of content.text, content.title, content.url and
\* metadata.description; match says whether text, title or url contains the
\* lower-cased query.
MkDoc(i, ns) ==
  [ id        |-> i,
    namespace |-> ns,
    score     |-> (i * 7) % 4,
    textLen   |-> CASE i % 3 = 0 -> 2000 [] i % 3 = 1 -> 40 [] OTHER -> 0,
    titleLen  |-> (i % 2) * 5,
    urlLen    |-> 20,
    descLen   |-> 0,
    match     |-> (i % 4 = 1) ]

\* n documents of namespace NsA, then one of namespace NsB and one whose
\* metadata carries no namespace.
IndexOf(n) ==
  [i \in 1..(n + 2) |->
     MkDoc(i, IF i <= n THEN NsA ELSE IF i = n + 1 THEN NsB ELSE NoNamespace)]

RECURSIVE Pick(_, _, _)
\* The documents of seq at the positions S, in index order.
Pick(seq, S, i) ==
  IF i > Len(seq) THEN <<>>
  ELSE (IF i \in S THEN <<seq[i]>> ELSE <<>>) \o Pick(seq, S, i + 1)

\* Positions of the documents that do not belong to namespace NsA.
OtherDocs == {i \in 1..Len(index) : index[i].namespace # NsA}

\* What searchIndex.search may return: a run of consecutive stored documents
\* together with any of the documents of other namespaces.
SearchResults ==
  {Pick(index, (a..b) \cup F, 1) :
     a \in 1..(Len(index) + 1), b \in 0..Len(index), F \in SUBSET OtherDocs}

---------------------------------------------------------------------------
(* app/api/firestarter/query/route.ts *)

SearchLimit == 100
MaxRelevantDocs == 20
MaxContextDocs == 10
MaxContextChars == 1500
SnippetChars == 200
MinContextLength == 100

\* Mutant: the namespace filter lets documents without a namespace through.
FilterNamespace_Lenient(results, ns) ==
  SelectSeq(results, LAMBDA d : d.namespace = ns \/ d.namespace = NoNamespace)

\* route.ts:56-63 and 80-82: doc.metadata?.namespace === namespace
FilterNamespace(results, ns) ==
  SelectSeq(results, LAMBDA d : d.namespace = ns)

\* route.ts:90-98: text, title or url includes the lower-cased query
FilterContent(docs) == SelectSeq(docs, LAMBDA d : d.match)

\* route.ts:216: content.title || metadata.title || metadata.pageTitle || 'Untitled'
TitleLength(d) == IF d.titleLen = 0 THEN 8 ELSE d.titleLen

\* route.ts:215-241. contentLen is the length of
\* `TITLE: ${title}\nDESCRIPTION: ${description}\nSOURCE: ${url}\n\n${rawContent}`;
\* doc records which stored document the entry was made from.
Transform(d) ==
  [ doc        |-> d.id,
    contentLen |-> 32 + TitleLength(d) + d.descLen + d.urlLen + d.textLen,
    score      |-> d.score ]

RECURSIVE MapTransform(_)
MapTransform(docs) ==
  IF docs = <<>> THEN <<>> ELSE <<Transform(Head(docs))>> \o MapTransform(Tail(docs))

RECURSIVE InsertByScore(_, _)
\* d placed behind every entry whose score is not lower (the sort is stable).
InsertByScore(sorted, d) ==
  IF sorted = <<>> THEN <<d>>
  ELSE IF Head(sorted).score >= d.score
       THEN <<Head(sorted)>> \o InsertByScore(Tail(sorted), d)
       ELSE <<d>> \o sorted

RECURSIVE SortByScore(_)
\* route.ts:253: .sort((a, b) => (b.score || 0) - (a.score || 0))
SortByScore(s) ==
  IF s = <<>> THEN <<>>
  ELSE InsertByScore(SortByScore(SubSeq(s, 1, Len(s) - 1)), s[Len(s)])

\* Array.prototype.slice(0, n)
Slice(s, n) == SubSeq(s, 1, Min(n, Len(s)))

\* Mutant: the documents are cut to the limit without being sorted.
DocsToUse_Unsorted(docs) == Slice(MapTransform(docs), MaxRelevantDocs)

\* route.ts:252-259
DocsToUse(docs) ==
  LET transformedDocuments == SortByScore(MapTransform(docs))
      relevantDocs == Slice(transformedDocuments, MaxRelevantDocs)
  IN IF Len(relevantDocs) > 0 THEN relevantDocs
     ELSE Slice(transformedDocuments, MaxContextDocs)

\* route.ts:262
ContextDocs(use) == Slice(use, MaxContextDocs)

\* route.ts:275-282: content.substring(0, 1500) + '...'
ContextPiece(t) ==
  [doc |-> t.doc, chars |-> Min(t.contentLen, MaxContextChars), ellipsis |-> TRUE]

RECURSIVE MapPieces(_)
\* route.ts:274-283: an entry with empty content is dropped by filter(Boolean)
MapPieces(ts) ==
  IF ts = <<>> THEN <<>>
  ELSE (IF Head(ts).contentLen = 0 THEN <<>> ELSE <<ContextPiece(Head(ts))>>)
       \o MapPieces(Tail(ts))

\* route.ts:262-284
BuildContext(use) == MapPieces(ContextDocs(use))

RECURSIVE ContextLength(_)
\* context.length: the pieces with their '...' joined by '\n\n---\n\n'
ContextLength(ps) ==
  IF ps = <<>> THEN 0
  ELSE Head(ps).chars + 3 + (IF Len(ps) > 1 THEN 7 ELSE 0) + ContextLength(Tail(ps))

RECURSIVE MapSources(_)
\* route.ts:333-337, 295-299, 426-430
MapSources(ts) ==
  IF ts = <<>> THEN <<>>
  ELSE <<[doc |-> Head(ts).doc, snippetLen |-> Min(Head(ts).contentLen, SnippetChars) + 3]>>
       \o MapSources(Tail(ts))

(* The wire: a body is a sequence of tokens. The text of a line is one     *)
(* token and a line break is a token of its own, so that a reader may      *)
(* receive a line and its line break in different chunks.                  *)

\* A JSON value the routes exchange: an event of a stream ({type, content |
\* sources | error}) or the payload of a JSON response ({answer, sources} or
\* {error}): kind is the event's type or tells which answer it is, text the
\* content, answer or error text.
JsonPayload(kind, text, srcs) == [kind |-> kind, text |-> text, sources |-> srcs]
Event(type, content, srcs) == JsonPayload(type, content, srcs)

\* A line's text: what it starts with, and the JSON after that.
LineTok(pre, json) == [t |-> "line", pre |-> pre, json |-> json]
NL == [t |-> "nl", pre |-> "", json |-> JsonPayload("none", <<>>, <<>>)]

\* `data: ${JSON.stringify(event)}\n\n`
SSE(ev) == <<LineTok("data: ", ev), NL, NL>>

\* NextResponse.json(payload): the serialized payload, no line break
JsonBody(payload) == <<LineTok("", payload)>>

NoResponse == [status |-> 0, payload |-> JsonPayload("none", <<>>, <<>>), stream |-> FALSE]

QueryIdle ==
  /\ qpc = "idle" /\ qreq = [query |-> "", namespace |-> <<>>, stream |-> FALSE]
  /\ documents = <<>> /\ sawForeign = FALSE /\ usedFallback = FALSE /\ llmCalls = 0
  /\ docsToUse = <<>> /\ context = <<>> /\ qres = NoResponse /\ qbody = <<>>
  /\ qclosed = FALSE /\ qchunks = 0

\* NextResponse.json(payload, {status}): the handler returns.
RespondJson(status, payload) ==
  /\ qres' = [status |-> status, payload |-> payload, stream |-> FALSE]
  /\ qbody' = JsonBody(payload)
  /\ qclosed' = TRUE
  /\ qpc' = "done"

\* route.ts:115-160: no document of the namespace
NoDocuments ==
  IF qreq.stream
  THEN /\ qres' = [status |-> 200, payload |-> JsonPayload("stream", <<>>, <<>>),
                   stream |-> TRUE]
       /\ qbody' = SSE(Event("sources", <<>>, <<>>))
                   \o SSE(Event("content", NoDocsAnswer, <<>>))
                   \o SSE(Event("done", <<>>, <<>>))
       /\ qclosed' = TRUE
       /\ qpc' = "done"
  ELSE RespondJson(200, JsonPayload("noDocs", NoDocsAnswer, <<>>))

\* route.ts:162-163
ProviderConfigured(e) == Truthy(e["OPENAI_API_KEY"])

\* Mutant: the handler goes on without looking at the number of documents.
AfterSearch_NoEmptyCheck(docs) ==
  IF ~ProviderConfigured(env)
  THEN RespondJson(200, JsonPayload("notConfigured", NotConfiguredAnswer, <<>>))
  ELSE qpc' = "keywords" /\ UNCHANGED <<qres, qbody, qclosed>>

\* route.ts:114-173: what follows the search, up to the next await
AfterSearch(docs) ==
  IF Len(docs) = 0 THEN NoDocuments
  ELSE IF ~ProviderConfigured(env)
       THEN RespondJson(200, JsonPayload("notConfigured", NotConfiguredAnswer, <<>>))
       ELSE qpc' = "keywords" /\ UNCHANGED <<qres, qbody, qclosed>>

\* route.ts:5-11: the request arrives and its body is parsed
QueryBegin(q, ns, st) ==
  /\ qreq' = [query |-> q, namespace |-> ns, stream |-> st]
  /\ IF q = "" \/ ns = <<>>
     THEN RespondJson(400, JsonPayload("error", <<"Query and namespace are required">>, <<>>))
     ELSE qpc' = "search" /\ UNCHANGED <<qres, qbody, qclosed>>
  /\ UNCHANGED <<documents, sawForeign, usedFallback, llmCalls, docsToUse, context, qchunks>>

QueryInputs == {"", "q"}
NamespaceInputs == {<<>>, NsA, NsB}

\* A client posts to /api/firestarter/query.
QueryRequest ==
  /\ qpc = "idle"
  /\ \E q \in QueryInputs, ns \in NamespaceInputs, st \in BOOLEAN : QueryBegin(q, ns, st)
  /\ UNCHANGED frameQ

\* route.ts:45-68: the primary search returns, and its results are filtered
QuerySearch ==
  /\ qpc = "search"
  /\ \E results \in SearchResults :
       LET docs == FilterNamespace(results, qreq.namespace) IN
       /\ Len(results) <= SearchLimit
       /\ documents' = docs
       /\ sawForeign' = (Len(docs) < Len(results))
       /\ IF Len(docs) = 0
          THEN qpc' = "fallback" /\ UNCHANGED <<qres, qbody, qclosed>>
          ELSE AfterSearch(docs)
  /\ UNCHANGED <<frameQ, qreq, usedFallback, llmCalls, docsToUse,
                 context, qchunks>>

\* route.ts:72-106: the fallback search returns
QueryFallbackSearch ==
  /\ qpc = "fallback"
  /\ \E results \in SearchResults :
       LET namespaceDocs == FilterNamespace(results, qreq.namespace)
           filtered == FilterContent(namespaceDocs)
           docs == IF Len(namespaceDocs) > 0 /\ Len(filtered) = 0
                   THEN namespaceDocs ELSE filtered
       IN
       /\ Len(results) <= SearchLimit
       /\ documents' = docs
       /\ sawForeign' = (sawForeign \/ Len(namespaceDocs) < Len(results))
       /\ AfterSearch(docs)
  /\ usedFallback' = TRUE
  /\ UNCHANGED <<frameQ, qreq, llmCalls, docsToUse, context, qchunks>>

\* route.ts:109-112: either search throws
QuerySearchThrows ==
  /\ qpc \in {"search", "fallback"}
  /\ documents' = <<>>
  /\ NoDocuments
  /\ UNCHANGED <<frameQ, qreq, sawForeign, usedFallback, llmCalls,
                 docsToUse, context, qchunks>>

\* route.ts:175-301: the keyword extraction call returns or throws (its
\* result only feeds log lines), then the context is built.
QueryKeywords ==
  /\ qpc = "keywords"
  /\ llmCalls' = llmCalls + 1
  /\ LET use == DocsToUse(documents)
         ctx == BuildContext(use)
     IN /\ docsToUse' = use
        /\ context' = ctx
        /\ IF ContextLength(ctx) < MinContextLength
           THEN RespondJson(200, JsonPayload("contextTooShort", ContextTooShortAnswer,
                                             MapSources(use)))
           ELSE qpc' = "completion" /\ UNCHANGED <<qres, qbody, qclosed>>
  /\ UNCHANGED <<frameQ, qreq, documents, sawForeign, usedFallback, qchunks>>

\* What the LLM may say in one piece: nothing, or some text.
Pieces == {<<>>, <<"x">>, <<"y">>}

\* route.ts:384-431: the non-streaming completion returns
QueryCompletionJson ==
  /\ qpc = "completion" /\ ~qreq.stream
  /\ llmCalls' = llmCalls + 1
  /\ \E content \in Pieces :
       RespondJson(200, IF content = <<>>
                        THEN JsonPayload("apology", ApologyAnswer, MapSources(docsToUse))
                        ELSE JsonPayload("llm", content, MapSources(docsToUse)))
  /\ UNCHANGED <<frameQ, qreq, documents, sawForeign, usedFallback,
                 docsToUse, context, qchunks>>

\* route.ts:410-431: openai.chat.completions.create throws
QueryCompletionThrows ==
  /\ qpc = "completion"
  /\ llmCalls' = llmCalls + 1
  /\ \E answer \in {AuthFailedAnswer, RateLimitAnswer, ErrorGeneratingAnswer} :
       RespondJson(200, JsonPayload("llmError", answer, MapSources(docsToUse)))
  /\ UNCHANGED <<frameQ, qreq, documents, sawForeign, usedFallback,
                 docsToUse, context, qchunks>>

\* route.ts:310-382: the streaming completion is opened; the response is
\* returned and its stream starts with the sources event.
QueryCompletionStream ==
  /\ qpc = "completion" /\ qreq.stream
  /\ llmCalls' = llmCalls + 1
  /\ qres' = [status |-> 200,
              payload |-> JsonPayload("stream", <<>>, MapSources(docsToUse)),
              stream |-> TRUE]
  /\ qbody' = SSE(Event("sources", <<>>, MapSources(docsToUse)))
  /\ qpc' = "streaming"
  /\ UNCHANGED <<frameQ, qreq, documents, sawForeign, usedFallback,
                 docsToUse, context, qclosed, qchunks>>

\* Mutant: a chunk without content is passed on as an event too.
ContentEvent_Unfiltered(content) == SSE(Event("content", content, <<>>))

\* route.ts:351-357: if (content) controller.enqueue(...)
ContentEvent(content) ==
  IF content # <<>> THEN SSE(Event("content", content, <<>>)) ELSE <<>>

\* route.ts:350-358: one chunk of the LLM stream
QueryStreamChunk ==
  /\ qpc = "streaming" /\ qchunks < MaxChunks
  /\ qchunks' = qchunks + 1
  /\ \E content \in Pieces : qbody' = qbody \o ContentEvent(content)
  /\ UNCHANGED <<frameQ, qpc, qreq, documents, sawForeign, usedFallback,
                 llmCalls, docsToUse, context, qres, qclosed>>

\* route.ts:360-364: the LLM stream ends
QueryStreamEnd ==
  /\ qpc = "streaming"
  /\ qbody' = qbody \o SSE(Event("done", <<>>, <<>>))
  /\ qclosed' = TRUE
  /\ qpc' = "done"
  /\ UNCHANGED <<frameQ, qreq, documents, sawForeign, usedFallback,
                 llmCalls, docsToUse, context, qres, qchunks>>

\* route.ts:365-372: the LLM stream throws
QueryStreamError ==
  /\ qpc = "streaming"
  /\ qbody' = qbody \o SSE(Event("error", <<"Streaming failed">>, <<>>))
  /\ qclosed' = TRUE
  /\ qpc' = "done"
  /\ UNCHANGED <<frameQ, qreq, documents, sawForeign, usedFallback,
                 llmCalls, docsToUse, context, qres, qchunks>>

QueryStep ==
  \/ QuerySearch
  \/ QueryFallbackSearch
  \/ QuerySearchThrows
  \/ QueryKeywords
  \/ QueryCompletionJson
  \/ QueryCompletionThrows
  \/ QueryCompletionStream
  \/ QueryStreamChunk
  \/ QueryStreamEnd
  \/ QueryStreamError

---------------------------------------------------------------------------
(* app/api/v1/chat/completions/route.ts, and the copy of the endpoint that *)
(* carries the Google branch (app/api/scrape/route.ts:82-188)              *)

\* request.headers.get(name) of a header the request does not carry
NoHeader == "null"

\* The headers of a request: google is 'X-Use-Google-AI', groq 'X-Use-Groq',
\* openai 'X-Use-OpenAI', and xUseGoogle is 'X-Use-Google', the header
\* GOOGLE_AI_STUDIO_SETUP.md names.
Headers(google, groq, openai, xUseGoogle) ==
  [google |-> google, groq |-> groq, openai |-> openai, xUseGoogle |-> xUseGoogle]

NoHeaders == Headers(NoHeader, NoHeader, NoHeader, NoHeader)

HeaderInputs ==
  {Headers(g, q, o, NoHeader) : g \in {NoHeader, "true"}, q \in {NoHeader, "true"},
                                o \in {NoHeader, "true"}}
  \cup {Headers(NoHeader, NoHeader, NoHeader, "true")}

\* body.model when the request carries none
NoModel == <<Undefined>>

\* body.model: absent, the name of a provider's model, the bare prefix, or
\* the model name of a chatbot
ModelInputs ==
  { NoModel, <<"g", "p", "t", "-", "4", "o">>, FirecrawlPrefix, ModelName(NsA) }

UserMessage == [role |-> "user", content |-> "q"]
AssistantMessage == [role |-> "assistant", content |-> "a"]

\* body.messages
MessageInputs == { <<>>, <<UserMessage, AssistantMessage>> }

\* What a provider's OpenAI-compatible API answers with.
UpstreamJson ==
  { [id |-> "abc", choices |-> <<>>, follow_up_questions |-> <<"absent">>],
    [id |-> "cmpl-1", choices |-> <<"Hello">>, follow_up_questions |-> <<"absent">>] }

\* A part of a provider's streamed body, passed on as it is.
RawChunk(bytes) ==
  [kind |-> "raw", model |-> <<>>, role |-> "none", hasContent |-> FALSE,
   content |-> <<bytes>>, finish |-> "null"]

UpstreamChunks == {RawChunk("chunk-1"), RawChunk("chunk-2")}

ErrorStatuses == {401, 429}

\* The text of a follow-up completion, line by line.
FollowUpTexts == { <<"Q1", "", "Q2">>, <<"Q1", "Q2", "Q3", "Q4">> }

ErrorPayload(message, type, code) ==
  [error |-> [message |-> message, type |-> type, code |-> code]]

NoChatResponse == [status |-> 0, payload |-> ErrorPayload(<<>>, "", 0), stream |-> FALSE]

ChatIdle ==
  /\ cpc = "idle"
  /\ creq = [handler |-> "", headers |-> NoHeaders,
             model |-> NoModel, stream |-> FALSE, messages |-> <<>>]
  /\ fetches = <<>> /\ held = <<>> /\ cres = NoChatResponse
  /\ rdpos = 0 /\ buffer = <<>> /\ out = <<>> /\ cclosed = "no"

\* NextResponse.json(payload, {status}): the handler returns.
ChatRespond(status, payload) ==
  /\ cres' = [status |-> status, payload |-> payload, stream |-> FALSE]
  /\ cpc' = "done"

\* new Response(stream): the handler returns a streamed body.
ChatRespondStream(next) ==
  /\ cres' = [status |-> 200, payload |-> ErrorPayload(<<>>, "", 0), stream |-> TRUE]
  /\ cpc' = next

\* fetch(url, ...): one request leaves for `to`.
Fetch(to, model, stream) ==
  fetches' = Append(fetches, [to |-> to, model |-> model, stream |-> stream])

\* model?.startsWith('firecrawl-')
StartsWithFirecrawl(model) == model # NoModel /\ StartsWith(model, FirecrawlPrefix)

\* Mutant: the namespace keeps the dash that ends the prefix.
NamespaceOf_KeepsDash(model) ==
  IF StartsWith(model, FirecrawlPrefix) THEN Substring(model, Len(FirecrawlPrefix) - 1)
  ELSE <<>>

\* route.ts:200-208: model.substring('firecrawl-'.length), or ''
NamespaceOf(model) ==
  IF StartsWithFirecrawl(model) THEN Substring(model, Len(FirecrawlPrefix)) ELSE <<>>

\* route.ts:229-230: the content of the last message whose role is 'user', or ''
LastUserContent(messages) ==
  LET users == SelectSeq(messages, LAMBDA m : m.role = "user")
  IN IF users = <<>> THEN "" ELSE users[Len(users)].content

(* The chunks of the OpenAI stream format the endpoint writes. *)
Chunk(model, role, hasContent, content, finish) ==
  [kind |-> "chunk", model |-> model, role |-> role, hasContent |-> hasContent,
   content |-> content, finish |-> finish]

\* route.ts:262
InitialChunk(model) == Chunk(model, "assistant", TRUE, <<>>, "null")
\* route.ts:282-293
ContentChunk(model, text) == Chunk(model, "none", TRUE, text, "null")
\* route.ts:303
FinalChunk(model) == Chunk(model, "none", FALSE, <<>>, "stop")
\* route.ts:304: 'data: [DONE]\n\n'
DoneMarker == [kind |-> "[DONE]", model |-> <<>>, role |-> "none", hasContent |-> FALSE,
               content |-> <<>>, finish |-> "null"]

RECURSIVE SplitLines(_, _)
\* buffer.split('\n'): the lines, the last one being what follows the last
\* line break.
SplitLines(toks, cur) ==
  IF toks = <<>> THEN <<cur>>
  ELSE IF Head(toks).t = "nl"
       THEN <<cur>> \o SplitLines(Tail(toks), <<>>)
       ELSE SplitLines(Tail(toks), Append(cur, Head(toks)))

\* route.ts:273-298: what one line makes the endpoint write. A line is
\* forwarded when it starts with '0:' and the rest is a JSON string.
LineChunks(line, model) ==
  IF line = <<>> THEN <<>>
  ELSE IF Head(line).pre = "0:" /\ Len(line) = 1 /\ Head(line).json.kind = "string"
       THEN <<ContentChunk(model, Head(line).json.text)>>
       ELSE <<>>

RECURSIVE LinesChunks(_, _)
LinesChunks(lines, model) ==
  IF lines = <<>> THEN <<>>
  ELSE LineChunks(Head(lines), model) \o LinesChunks(Tail(lines), model)

\* Mutant: the [DONE] marker is written before the final chunk.
StreamTail_DoneFirst(model) == <<DoneMarker, FinalChunk(model)>>

\* route.ts:302-304
StreamTail(model) == <<FinalChunk(model), DoneMarker>>

\* Mutant: a request without a namespace is passed on to the query route.
MissingNamespace_Lenient(namespace) == FALSE

\* route.ts:210: !namespace
MissingNamespace(namespace) == namespace = <<>>

\* Mutant: X-Use-OpenAI is looked at before X-Use-Groq.
MainDispatch_OpenAIFirst(h, model, stream, messages) ==
  IF h.openai = "true"
  THEN IF ~Truthy(env["OPENAI_API_KEY"])
       THEN /\ ChatRespond(500, ErrorPayload(<<"OpenAI API key not configured">>, "server_error", 500))
            /\ UNCHANGED <<fetches, queryVars>>
       ELSE /\ Fetch("openai", model, stream)
            /\ cpc' = "await-openai"
            /\ UNCHANGED <<cres, queryVars>>
  ELSE IF h.groq = "true"
  THEN IF ~Truthy(env["GROQ_API_KEY"])
       THEN /\ ChatRespond(500, ErrorPayload(<<"Groq API key not configured">>, "server_error", 500))
            /\ UNCHANGED <<fetches, queryVars>>
       ELSE /\ Fetch("groq", model, stream)
            /\ cpc' = "await-groq"
            /\ UNCHANGED <<cres, queryVars>>
  ELSE IF MissingNamespace(NamespaceOf(model))
  THEN /\ ChatRespond(400, ErrorPayload(<<"Invalid model specified. Use format: firecrawl-<domain>">>,
                                        "invalid_request_error", 400))
       /\ UNCHANGED <<fetches, queryVars>>
  ELSE /\ Fetch("query", model, stream)
       /\ QueryBegin(LastUserContent(messages), NamespaceOf(model), stream)
       /\ cpc' = "await-query"
       /\ UNCHANGED cres

\* route.ts:18-243 and 319-329: the handler up to its first await or return
MainDispatch(h, model, stream, messages) ==
  IF h.groq = "true"
  THEN IF ~Truthy(env["GROQ_API_KEY"])
       THEN /\ ChatRespond(500, ErrorPayload(<<"Groq API key not configured">>, "server_error", 500))
            /\ UNCHANGED <<fetches, queryVars>>
       ELSE /\ Fetch("groq", model, stream)
            /\ cpc' = "await-groq"
            /\ UNCHANGED <<cres, queryVars>>
  ELSE IF h.openai = "true"
  THEN IF ~Truthy(env["OPENAI_API_KEY"])
       THEN /\ ChatRespond(500, ErrorPayload(<<"OpenAI API key not configured">>, "server_error", 500))
            /\ UNCHANGED <<fetches, queryVars>>
       ELSE /\ Fetch("openai", model, stream)
            /\ cpc' = "await-openai"
            /\ UNCHANGED <<cres, queryVars>>
  ELSE IF MissingNamespace(NamespaceOf(model))
  THEN /\ ChatRespond(400, ErrorPayload(<<"Invalid model specified. Use format: firecrawl-<domain>">>,
                                        "invalid_request_error", 400))
       /\ UNCHANGED <<fetches, queryVars>>
  ELSE /\ Fetch("query", model, stream)
       /\ QueryBegin(LastUserContent(messages), NamespaceOf(model), stream)
       /\ cpc' = "await-query"
       /\ UNCHANGED cres

\* POST /api/v1/chat/completions arrives at route.ts:18.
ChatPostMain ==
  /\ cpc = "idle" /\ qpc = "idle"
  /\ \E h \in HeaderInputs, model \in ModelInputs, stream \in BOOLEAN,
        messages \in MessageInputs :
       /\ creq' = [handler |-> "main", headers |-> h, model |-> model,
                   stream |-> stream, messages |-> messages]
       /\ MainDispatch(h, model, stream, messages)
  /\ UNCHANGED <<frameC, held, rdpos, buffer, out, cclosed>>

\* route.ts:60-73: Groq answers
MainGroqResponse ==
  /\ cpc = "await-groq"
  /\ \/ \E data \in UpstreamJson : ChatRespond(200, data)
     \/ ChatRespond(500, ErrorPayload(<<"Groq API error">>, "server_error", 500))
  /\ UNCHANGED <<frameC, queryVars, creq, fetches, held, rdpos, buffer, out, cclosed>>

\* route.ts:111-125 and 143-175: OpenAI answers the main request
MainOpenAIResponse ==
  /\ cpc = "await-openai"
  /\ \/ /\ creq.stream
        /\ ChatRespondStream("done")
        /\ cclosed' = "piped"
        /\ UNCHANGED <<fetches, held>>
     \/ /\ ~creq.stream
        /\ \E data \in UpstreamJson :
             IF data.choices = <<>>
             THEN /\ ChatRespond(500, ErrorPayload(<<"TypeError">>, "server_error", 500))
                  /\ UNCHANGED <<fetches, held>>
             ELSE /\ held' = <<data>>
                  /\ Fetch("openai", <<"gpt-4o-mini">>, FALSE)
                  /\ cpc' = "await-followup"
                  /\ UNCHANGED cres
        /\ UNCHANGED cclosed
     \/ /\ ChatRespond(500, ErrorPayload(<<"OpenAI API error">>, "server_error", 500))
        /\ UNCHANGED <<fetches, held, cclosed>>
  /\ UNCHANGED <<frameC, queryVars, creq, rdpos, buffer, out>>

\* route.ts:180-184: the non-empty lines of the text, at most three
FollowUpQuestions(lines) == Slice(SelectSeq(lines, LAMBDA q : q # ""), 3)

\* route.ts:177-196: OpenAI answers the follow-up request
MainFollowUpResponse ==
  /\ cpc = "await-followup"
  /\ \/ \E text \in FollowUpTexts :
          ChatRespond(200, [held[1] EXCEPT !.follow_up_questions = FollowUpQuestions(text)])
     \/ ChatRespond(200, held[1])
  /\ UNCHANGED <<frameC, queryVars, creq, fetches, held, rdpos, buffer, out, cclosed>>

\* route.ts:245-262 and 309-316: the query route has answered a streaming
\* request; the response is returned and its stream starts.
MainQueryResponseStream ==
  /\ cpc = "await-query" /\ creq.stream /\ qres.status # 0
  /\ IF qres.status \in 200..299
     THEN /\ ChatRespondStream("transform")
          /\ out' = <<InitialChunk(creq.model)>>
          /\ cclosed' = "open"
     ELSE /\ ChatRespond(500, ErrorPayload(qres.payload.text, "server_error", 500))
          /\ UNCHANGED <<out, cclosed>>
  /\ UNCHANGED <<frameC, queryVars, creq, fetches, held, rdpos, buffer>>

\* route.ts:264-300: reader.read() delivers the next part of the body
MainTransformRead ==
  /\ cpc = "transform" /\ rdpos < Len(qbody)
  /\ \E k \in (rdpos + 1)..Len(qbody) :
       LET lines == SplitLines(buffer \o SubSeq(qbody, rdpos + 1, k), <<>>) IN
       /\ rdpos' = k
       /\ buffer' = lines[Len(lines)]
       /\ out' = out \o LinesChunks(SubSeq(lines, 1, Len(lines) - 1), creq.model)
  /\ UNCHANGED <<frameC, queryVars, cpc, creq, fetches, held, cres, cclosed>>

\* route.ts:266 and 302-305: reader.read() reports the end of the body
MainTransformDone ==
  /\ cpc = "transform" /\ rdpos = Len(qbody) /\ qclosed
  /\ out' = out \o StreamTail(creq.model)
  /\ cclosed' = "closed"
  /\ cpc' = "done"
  /\ UNCHANGED <<frameC, queryVars, creq, fetches, held, cres, rdpos, buffer>>

\* reader.read() rejects (the connection to the query route breaks): start()
\* rejects and the response stream is errored.
MainTransformAbort ==
  /\ cpc = "transform" /\ ~(rdpos = Len(qbody) /\ qclosed)
  /\ cclosed' = "errored"
  /\ cpc' = "done"
  /\ UNCHANGED <<frameC, queryVars, creq, fetches, held, cres, rdpos, buffer, out>>

\* route.ts:337-353: the completion object of a non-streaming answer
Completion(model, content, sourcesListed) ==
  [object |-> "chat.completion", model |-> model, role |-> "assistant",
   content |-> content, sourcesListed |-> sourcesListed, finish |-> "stop"]

\* route.ts:331-371: the query route has answered a non-streaming request
MainQueryResponseJson ==
  /\ cpc = "await-query" /\ ~creq.stream /\ qres.status # 0
  /\ IF qres.status \in 200..299
     THEN ChatRespond(200, Completion(creq.model, qres.payload.text, qres.payload.sources))
     ELSE ChatRespond(500, ErrorPayload(qres.payload.text, "server_error", 500))
  /\ UNCHANGED <<frameC, queryVars, creq, fetches, held, rdpos, buffer, out, cclosed>>

\* Mutant: the key is not looked at before the request is forwarded.
GoogleKeyMissing_Unchecked(e) == FALSE

\* scrape/route.ts:95-97: !googleApiKey
GoogleKeyMissing(e) == ~Truthy(e["GOOGLE_AI_STUDIO_API_KEY"])

\* scrape/route.ts:86-123 and 171-175: the handler up to its await or return
GoogleDispatch(h, stream) ==
  IF h.google = "true"
  THEN IF GoogleKeyMissing(env)
       THEN /\ ChatRespond(500, ErrorPayload(<<"Google AI Studio API key not configured">>,
                                             "configuration_error", 500))
            /\ UNCHANGED fetches
       ELSE /\ Fetch("google", <<"gemini-2.5-flash">>, stream)
            /\ cpc' = "await-google"
            /\ UNCHANGED cres
  ELSE /\ ChatRespond(400, ErrorPayload(<<"Provider not configured">>, "", 400))
       /\ UNCHANGED fetches

\* POST /api/v1/chat/completions arrives at the handler with the Google branch.
ChatPostGoogle ==
  /\ cpc = "idle" /\ qpc = "idle"
  /\ \E h \in HeaderInputs, model \in ModelInputs, stream \in BOOLEAN,
        messages \in MessageInputs :
       /\ creq' = [handler |-> "google", headers |-> h, model |-> model,
                   stream |-> stream, messages |-> messages]
       /\ GoogleDispatch(h, stream)
  /\ UNCHANGED <<frameC, queryVars, held, rdpos, buffer, out, cclosed>>

\* Mutant: the upstream body is wrapped before it is returned.
GoogleJsonReply_Wrapped(data) == [data EXCEPT !.id = "chatcmpl-proxy"]

\* scrape/route.ts:167-168
GoogleJsonReply(data) == data

\* scrape/route.ts:125-168: Google answers
GoogleResponse ==
  /\ cpc = "await-google"
  /\ \/ \E status \in ErrorStatuses :
          /\ ChatRespond(status, ErrorPayload(<<"upstream error">>, "upstream", status))
          /\ UNCHANGED <<held, cclosed>>
     \/ /\ creq.stream
        /\ ChatRespondStream("google-stream")
        /\ cclosed' = "open"
        /\ UNCHANGED held
     \/ /\ ~creq.stream
        /\ \E data \in UpstreamJson :
             /\ held' = <<data>>
             /\ ChatRespond(200, GoogleJsonReply(data))
        /\ UNCHANGED cclosed
  /\ UNCHANGED <<frameC, queryVars, creq, fetches, rdpos, buffer, out>>

\* scrape/route.ts:143-149: a chunk of Google's stream is passed on
GoogleStreamChunk ==
  /\ cpc = "google-stream" /\ Len(out) < MaxChunks
  /\ \E c \in UpstreamChunks : out' = Append(out, c)
  /\ UNCHANGED <<frameC, queryVars, cpc, creq, fetches, held, cres, rdpos, buffer, cclosed>>

\* scrape/route.ts:145 and 150-153: Google's stream ends, or breaks
GoogleStreamEnd ==
  /\ cpc = "google-stream"
  /\ cclosed' \in {"closed", "errored"}
  /\ cpc' = "done"
  /\ UNCHANGED <<frameC, queryVars, creq, fetches, held, cres, rdpos, buffer, out>>

ChatStep ==
  \/ MainGroqResponse
  \/ MainOpenAIResponse
  \/ MainFollowUpResponse
  \/ MainQueryResponseStream
  \/ MainQueryResponseJson
  \/ MainTransformRead
  \/ MainTransformDone
  \/ GoogleResponse
  \/ GoogleStreamChunk
  \/ GoogleStreamEnd

---------------------------------------------------------------------------
(* app/api/firestarter/create/route.ts: the handler of unnamed/part_003,    *)
(* and its two copies in unnamed/part_002 (lines 5-240 and 246-521)         *)

MaxRequests == 1   \* requests a route is sent in one behaviour

\* part_003:141: const batchSize = 10
BatchSize == 10

CreateHandlers == {"part_003", "part_002", "part_002b"}

KEnvNames == {"DISABLE_CHATBOT_CREATION", "FIRESTARTER_DISABLE_CREATION_DASHBOARD",
              "FIRECRAWL_API_KEY"}

KEnvs ==
  {e \in [KEnvNames -> {Undefined, "true", "false", "key"}] :
     /\ e["DISABLE_CHATBOT_CREATION"] \in {Undefined, "true", "false"}
     /\ e["FIRESTARTER_DISABLE_CREATION_DASHBOARD"] \in {Undefined, "true"}
     /\ e["FIRECRAWL_API_KEY"] \in {Undefined, "key"}}

\* firestarter.config.ts:251
enableCreation == kenv["DISABLE_CHATBOT_CREATION"] # "true"

\* Mutant: the handlers never find creation disabled.
CreationDisabled_Never(h) == FALSE

\* part_003:11, part_002:8 and 249: the test each copy of the handler makes
CreationDisabled(h) ==
  IF h = "part_003" THEN ~enableCreation
  ELSE kenv["FIRESTARTER_DISABLE_CREATION_DASHBOARD"] = "true"

\* part_003:195-217, part_002:461-476: the copies that call saveIndex
SavesIndex(h) == h \in {"part_003", "part_002b"}

\* body.url: absent, or a string; valid tells whether new URL(url) accepts
\* it, and hostname is what new URL(url).hostname then is.
Url(valid, hostname) == [given |-> TRUE, valid |-> valid, hostname |-> hostname]
NoUrl == [given |-> FALSE, valid |-> FALSE, hostname |-> <<>>]

HostInputs == { <<"a", ".", "b">>, <<"a", "-", "b">>, <<"w", ".", "a", ".", "b">> }

UrlInputs == {NoUrl, Url(FALSE, <<>>)} \cup {Url(TRUE, h) : h \in HostInputs}

\* The request body: whether it parses as JSON, and its url.
BodyInputs ==
  {[parses |-> FALSE, url |-> NoUrl]} \cup {[parses |-> TRUE, url |-> u] : u \in UrlInputs}

\* Date.now()
TimestampInputs == {7, 12}

\* crawlResponse.data.length: no page, one batch, more than one batch
PageCounts == {0, 1, BatchSize + 1}

NoCreateRequest == [n |-> 0, handler |-> "", body |-> [parses |-> FALSE, url |-> NoUrl],
                    key |-> NoHeader]

CreateResponse(status, error, namespace) ==
  [status |-> status, error |-> error, namespace |-> namespace]

NoCreateResponse == CreateResponse(0, "", <<>>)

NumCreators == 2   \* create requests handled at the same time
MaxClock == 9      \* the last value Date.now() takes

\* The first value Date.now() takes.
StartClock == 7

Creators == 1..NumCreators

\* One request's handler: where it stands, its `timestamp` and `namespace`,
\* the length of crawlResponse.data, the loop variable i and the status it
\* answered with.
CreatorIdle ==
  [pc |-> "idle", timestamp |-> 0, namespace |-> <<>>, length |-> 0, i |-> 0, status |-> 0]

RaceIdle ==
  /\ clock = StartClock /\ creators = [r \in Creators |-> CreatorIdle]
  /\ searchDocs = {}

CreateIdle ==
  /\ kpc = "idle" /\ kreq = NoCreateRequest /\ knamespace = <<>>
  /\ kpages = [length |-> 0, i |-> 0] /\ kres = NoCreateResponse
  /\ crawls = <<>> /\ upserted = <<>> /\ saved = <<>>
  /\ RaceIdle

\* The environment of the parts that run neither the create nor the scrape route.
KEnvUnset == kenv = [v \in KEnvNames |-> Undefined]

\* NextResponse.json(..., {status}): the handler returns.
CreateRespond(status, error, namespace) ==
  /\ kres' = CreateResponse(status, error, namespace)
  /\ kpc' = "done"

\* part_003:232-253: the outer catch, for an error without statusCode 401
CreateFailed == CreateRespond(500, "Failed to start crawl", <<>>)

\* part_003:8-67: the handler up to firecrawl.crawlUrl, or to its return
CreateBegin(h, body, key, timestamp) ==
  IF CreationDisabled(h)
  THEN /\ CreateRespond(403, "creation disabled", <<>>)
       /\ UNCHANGED <<knamespace, crawls>>
  ELSE IF ~body.parses
  THEN \* part_003:18-22; the copies of part_002 let request.json() throw
       /\ IF h = "part_003" THEN CreateRespond(400, "Invalid request body", <<>>)
          ELSE CreateFailed
       /\ UNCHANGED <<knamespace, crawls>>
  ELSE IF ~body.url.given
  THEN /\ CreateRespond(400, "URL is required", <<>>)
       /\ UNCHANGED <<knamespace, crawls>>
  ELSE IF ~body.url.valid
  THEN \* new URL(url) throws
       /\ CreateFailed
       /\ UNCHANGED <<knamespace, crawls>>
  ELSE /\ knamespace' = Namespace(body.url.hostname, timestamp)
       /\ IF ~Truthy(kenv["FIRECRAWL_API_KEY"]) /\ key = NoHeader
          THEN /\ CreateRespond(500, "Firecrawl API key is not configured", <<>>)
               /\ UNCHANGED crawls
          ELSE /\ crawls' = Append(crawls, body.url)
               /\ kpc' = "crawl"
               /\ UNCHANGED kres

\* POST /api/firestarter/create arrives.
CreatePost ==
  /\ kpc \in {"idle", "done"} /\ kreq.n < MaxRequests
  /\ \E h \in CreateHandlers, body \in BodyInputs, key \in {NoHeader, "key"},
        timestamp \in TimestampInputs :
       /\ kreq' = [n |-> kreq.n + 1, handler |-> h, body |-> body, key |-> key]
       /\ CreateBegin(h, body, key, timestamp)
  /\ kpages' = [length |-> 0, i |-> 0]
  /\ UNCHANGED <<frameK, upserted, saved>>

\* part_003:219-231
CreateSucceeded == CreateRespond(200, "", knamespace)

\* What follows the last upsert: the verifying search, which changes nothing.
AfterUpserts == kpc' = "verify" /\ UNCHANGED kres

\* part_003:67-147: firecrawl.crawlUrl answers, or throws
CrawlResponse ==
  /\ kpc = "crawl"
  /\ \/ \E n \in PageCounts :
          /\ kpages' = [length |-> n, i |-> 0]
          /\ IF n > 0 THEN kpc' = "upsert" /\ UNCHANGED kres ELSE AfterUpserts
     \/ \* part_003:239-244: crawlUrl throws an error with statusCode 401
        /\ CreateRespond(401, "Firecrawl authentication failed", <<>>)
        /\ UNCHANGED kpages
     \/ \* crawlUrl throws another error, or its answer carries no data and
        \* crawlResponse.data.map throws (line 106)
        CreateFailed /\ UNCHANGED kpages
  /\ UNCHANGED <<frameK, kreq, knamespace, crawls, upserted, saved>>

\* documents.slice(i, i + batchSize), as the ids of its first document and
\* its length
Batch(namespace, length, i) ==
  [namespace |-> namespace, first |-> i,
   size |-> IF length - i < BatchSize THEN length - i ELSE BatchSize]

\* part_003:144-147 and 191-193: one batch is upserted, or the upsert throws
UpsertBatch ==
  /\ kpc = "upsert"
  /\ \/ /\ upserted' = Append(upserted, Batch(knamespace, kpages.length, kpages.i))
        /\ kpages' = [kpages EXCEPT !.i = @ + BatchSize]
        /\ IF kpages.i + BatchSize < kpages.length
           THEN UNCHANGED <<kpc, kres>> ELSE AfterUpserts
     \/ CreateFailed /\ UNCHANGED <<upserted, kpages>>
  /\ UNCHANGED <<frameK, kreq, knamespace, crawls, saved>>

\* part_003:158-190: the search that verifies the upserts answers or throws;
\* neither changes what the handler does next
VerifySearch ==
  /\ kpc = "verify"
  /\ IF SavesIndex(kreq.handler) THEN kpc' = "save" /\ UNCHANGED kres
     ELSE CreateSucceeded
  /\ UNCHANGED <<frameK, kreq, knamespace, kpages, crawls, upserted, saved>>

\* part_003:201-231: saveIndex returns (lib/storage.ts:222-235 lets no error
\* out) and the handler answers
SaveIndexReturns ==
  /\ kpc = "save"
  /\ saved' = Append(saved, [namespace |-> knamespace, pagesCrawled |-> kpages.length])
  /\ CreateSucceeded
  /\ UNCHANGED <<frameK, kreq, knamespace, kpages, crawls, upserted>>

CreateStep == CrawlResponse \/ UpsertBatch \/ VerifySearch \/ SaveIndexReturns

\* dashboard/page.tsx:408-420: the request the dashboard shows for the
\* chatbot just created is sent to the chat-completions endpoint
DashboardRequest ==
  /\ kpc = "done" /\ kres.status = 200
  /\ cpc = "idle" /\ qpc = "idle"
  /\ \E stream \in BOOLEAN, messages \in MessageInputs :
       LET model == ModelName(kres.namespace) IN
       /\ creq' = [handler |-> "main", headers |-> NoHeaders, model |-> model,
                   stream |-> stream, messages |-> messages]
       /\ MainDispatch(NoHeaders, model, stream, messages)
  /\ UNCHANGED <<frameC, held, rdpos, buffer, out, cclosed>>

---------------------------------------------------------------------------
(* The create route handling several requests at a time: each request runs  *)
(* the handler of part_003 with creation enabled, a valid url and an API    *)
(* key, and the handlers interleave at their awaits.                        *)

\* part_003:123: id: `${namespace}-${index}`
DocumentId(namespace, i) == namespace \o <<"-">> \o Decimal(i)

\* The ids of the documents of a batch.
BatchIds(b) == {DocumentId(b.namespace, j) : j \in b.first..(b.first + b.size - 1)}

\* searchIndex.upsert(batch): a document replaces the one stored under its id.
UpsertDocs(docs, ids, r) ==
  {d \in docs : d.id \notin ids} \cup {[id |-> id, by |-> r] : id \in ids}

\* The hostnames of the urls the concurrent requests name.
RaceHosts == { <<"a", ".", "b">>, <<"a", "-", "b">> }

\* Time passes: Date.now() returns a later millisecond.
Tick ==
  /\ clock < MaxClock
  /\ clock' = clock + 1
  /\ UNCHANGED <<frameX, creators, searchDocs>>

\* part_003:8-67: a request arrives; the handler computes its namespace from
\* the url's hostname and Date.now(), and calls firecrawl.crawlUrl
RacePost(r) ==
  /\ creators[r].pc = "idle"
  /\ \E hostname \in RaceHosts :
       creators' = [creators EXCEPT ![r].pc = "crawl", ![r].timestamp = clock,
                                    ![r].namespace = Namespace(hostname, clock)]
  /\ UNCHANGED <<frameX, clock, searchDocs>>

\* part_003:67-141 and 232-253: crawlUrl answers with pages, or throws. The
\* crawl is a request to Firecrawl and takes longer than a millisecond.
RaceCrawlResponse(r) ==
  /\ creators[r].pc = "crawl" /\ clock > creators[r].timestamp
  /\ \/ \E n \in PageCounts \ {0} :
          creators' = [creators EXCEPT ![r].pc = "upsert", ![r].length = n]
     \/ creators' = [creators EXCEPT ![r].pc = "done", ![r].status = 500]
  /\ UNCHANGED <<frameX, clock, searchDocs>>

\* part_003:144-147: one batch is upserted; after the last one the handler
\* goes on to its verifying search, saveIndex and the response (158-231)
RaceUpsertBatch(r) ==
  /\ creators[r].pc = "upsert"
  /\ LET c == creators[r]
         batch == Batch(c.namespace, c.length, c.i)
     IN /\ searchDocs' = UpsertDocs(searchDocs, BatchIds(batch), r)
        /\ creators' = IF c.i + BatchSize < c.length
                       THEN [creators EXCEPT ![r].i = @ + BatchSize]
                       ELSE [creators EXCEPT ![r].i = @ + BatchSize,
                                             ![r].pc = "done", ![r].status = 200]
  /\ UNCHANGED <<frameX, clock>>

RaceStep == \E r \in Creators : RacePost(r) \/ RaceCrawlResponse(r) \/ RaceUpsertBatch(r)

---------------------------------------------------------------------------
(* app/api/scrape/route.ts:21-81, and the rate limiters of                  *)
(* firestarter.config.ts:181-248                                            *)

\* firestarter.config.ts:247: createRateLimiter('scrape', 50, '1 d')
ScrapeLimit == 50

\* typeof v
TypeOf(v) == IF v = Undefined THEN "undefined" ELSE "string"

\* firestarter.config.ts:181-201: the limiter, or "null". Inside the function
\* `window` is its third parameter, so typeof window is the type of the
\* string passed for it.
createRateLimiter(identifier, requests, window) ==
  IF TypeOf(window) # "undefined" THEN "null"
  ELSE IF ~Truthy(redisEnv.url) \/ ~Truthy(redisEnv.token) THEN "null"
  ELSE "ratelimit"

\* firestarter.config.ts:247: config.rateLimits.scrape
RateLimitsScrape == createRateLimiter("scrape", ScrapeLimit, "1 d")

Ips == {"1.1.1.1", "2.2.2.2", "127.0.0.1"}

\* The headers 'x-forwarded-for' (its first entry), 'x-real-ip' and
\* 'X-Firecrawl-API-Key' of a request.
ScrapeHeaderInputs ==
  [forwarded : {NoHeader, "1.1.1.1"}, real : {NoHeader, "2.2.2.2"}, key : {NoHeader, "key"}]

\* scrape/route.ts:24-26
ClientIp(h) ==
  IF h.forwarded # NoHeader THEN h.forwarded
  ELSE IF h.real # NoHeader THEN h.real
  ELSE "127.0.0.1"

\* The request body: not JSON, with a url string, with a urls array, or with
\* neither.
ScrapeBodies == {"unparsable", "url", "urls", "neither"}

\* What the fixed-window limiter answers for an ip it has counted n requests
\* of in the window, this one included.
RateLimit(n) ==
  [success |-> n <= ScrapeLimit, limit |-> ScrapeLimit,
   remaining |-> IF n <= ScrapeLimit THEN ScrapeLimit - n ELSE 0]

NoRateLimitHeaders == [limit |-> <<>>, remaining |-> <<>>]

ScrapeResponse(status, headers) == [status |-> status, headers |-> headers]

NoScrapeRequest ==
  [n |-> 0, headers |-> [forwarded |-> NoHeader, real |-> NoHeader, key |-> NoHeader],
   body |-> "neither"]

ScrapeIdle ==
  /\ limiter = [ip \in Ips |-> 0]
  /\ rpc = "idle" /\ rreq = NoScrapeRequest
  /\ rres = ScrapeResponse(0, NoRateLimitHeaders) /\ scrapes = <<>>

\* NextResponse.json(..., {status}): the handler returns.
ScrapeRespond(status, headers) ==
  /\ rres' = ScrapeResponse(status, headers)
  /\ rpc' = "done"

\* scrape/route.ts:44-72: from the API key to the call of Firecrawl
AfterRateLimit(h, body) ==
  IF ~Truthy(kenv["FIRECRAWL_API_KEY"]) /\ h.key = NoHeader
  THEN ScrapeRespond(500, NoRateLimitHeaders) /\ UNCHANGED scrapes
  ELSE CASE body = "unparsable" ->
              \* request.json() throws an error without status: line 76-80
              ScrapeRespond(500, NoRateLimitHeaders) /\ UNCHANGED scrapes
         [] body = "neither" ->
              ScrapeRespond(400, NoRateLimitHeaders) /\ UNCHANGED scrapes
         [] OTHER ->
              /\ scrapes' = Append(scrapes, [n |-> rreq.n + 1, call |-> body])
              /\ rpc' = "firecrawl"
              /\ UNCHANGED rres

\* scrape/route.ts:21-72: the handler up to its call of Firecrawl or its return
ScrapeBegin(h, body) ==
  IF RateLimitsScrape # "null"
  THEN LET rateLimit == RateLimit(limiter'[ClientIp(h)]) IN
       IF ~rateLimit.success
       THEN /\ ScrapeRespond(429, [limit |-> Decimal(rateLimit.limit),
                                   remaining |-> Decimal(rateLimit.remaining)])
            /\ UNCHANGED scrapes
       ELSE AfterRateLimit(h, body)
  ELSE AfterRateLimit(h, body)

\* POST /api/scrape arrives from the ip its headers name; limiter counts the
\* requests each ip has sent in the window.
ScrapePost ==
  /\ rpc \in {"idle", "done"} /\ rreq.n < MaxRequests
  /\ \E h \in ScrapeHeaderInputs, body \in ScrapeBodies :
       /\ rreq' = [n |-> rreq.n + 1, headers |-> h, body |-> body]
       /\ limiter' = [limiter EXCEPT ![ClientIp(h)] = @ + 1]
       /\ ScrapeBegin(h, body)
  /\ UNCHANGED frameR

\* Statuses of the errors Firecrawl's client throws; 0 stands for none.
FirecrawlErrors == {0, 402, 429}

\* scrape/route.ts:67-80: Firecrawl answers, or its client throws
FirecrawlAnswer ==
  /\ rpc = "firecrawl"
  /\ \/ ScrapeRespond(200, NoRateLimitHeaders)
     \/ \E status \in FirecrawlErrors :
          ScrapeRespond(IF status = 0 THEN 500 ELSE status, NoRateLimitHeaders)
  /\ UNCHANGED <<frameR, limiter, rreq, scrapes>>

\* Neither the create nor the scrape route is in use.
CrawlUnused == KEnvUnset /\ CreateIdle /\ ScrapeIdle

---------------------------------------------------------------------------
(* lib/storage.ts: index metadata in Redis or in localStorage *)

MaxIndexes == 50

MaxCalls == 3      \* storage calls started in one behaviour
MaxErrors == 1     \* Redis or localStorage operations that throw
NumCallers == 2    \* callers that may have a storage call in flight

Callers == 1..NumCallers

\* The namespaces of the index metadata: the entries a full list holds, and
\* one more.
Namespaces == 1..(MaxIndexes + 1)

\* The namespaces calls are made with: the least and the most recently added
\* entry of a full list, and a namespace no stored list holds.
CallNamespaces == {1, MaxIndexes, MaxIndexes + 1}

\* An IndexMetadata: its namespace, and rev standing for the other fields.
IndexMetadata(ns, rev) == [namespace |-> ns, rev |-> rev]

NoRecord == [namespace |-> 0, rev |-> 0]

\* A stored list of n entries, saved one after the other: namespace n is at
\* the front and namespace 1 at the end.
StoredList(n) == [i \in 1..n |-> IndexMetadata(n + 1 - i, 0)]

\* The per-namespace records that go with StoredList(n).
StoredRecs(n) == [ns \in Namespaces |-> IF ns <= n THEN IndexMetadata(ns, 0) ELSE NoRecord]

NamespacesOf(list) == {list[i].namespace : i \in 1..Len(list)}

\* storage.ts:164: process.env.UPSTASH_REDIS_REST_URL && process.env.UPSTASH_REDIS_REST_TOKEN
RedisConfigured == Truthy(redisEnv.url) /\ Truthy(redisEnv.token)

\* Mutant: the factory hands out the localStorage adapter on the server too.
getStorageAdapter_LocalOnServer == IF RedisConfigured THEN "redis" ELSE "local"

\* storage.ts:162-175: the adapter's kind, or "throw"
getStorageAdapter ==
  IF RedisConfigured THEN "redis"
  ELSE IF onServer THEN "throw"
  ELSE "local"

\* storage.ts:180-190: the adapter a call gets ("null" when none), which is
\* also what `storage` holds afterwards
getStorage ==
  IF storage # "null" THEN storage
  ELSE IF getStorageAdapter = "throw" THEN "null" ELSE getStorageAdapter

\* indexes.findIndex(i => i.namespace === ns): the first position, or 0 for -1
FindIndex(indexes, ns) ==
  IF ns \in NamespacesOf(indexes)
  THEN CHOOSE i \in 1..Len(indexes) :
         /\ indexes[i].namespace = ns
         /\ \A j \in 1..(i - 1) : indexes[j].namespace # ns
  ELSE 0

\* Mutant: the saved entry is always put at the front.
Upsert_AlwaysUnshift(indexes, idx) == <<idx>> \o indexes

\* storage.ts:49-55 and 128-134: replace the entry in place, or unshift
Upsert(indexes, idx) ==
  LET existingIndex == FindIndex(indexes, idx.namespace)
  IN IF existingIndex # 0 THEN [indexes EXCEPT ![existingIndex] = idx]
     ELSE <<idx>> \o indexes

\* Mutant: the list is written back without being cut.
LimitedIndexes_Uncut(indexes, idx) == Upsert(indexes, idx)

\* storage.ts:49-58 and 128-137: limitedIndexes
LimitedIndexes(indexes, idx) == Slice(Upsert(indexes, idx), MaxIndexes)

\* Mutant: deleting one namespace empties the list.
FilteredIndexes_DropsAll(indexes, ns) == <<>>

\* Mutant: the filter keeps every entry.
FilteredIndexes_KeepsAll(indexes, ns) == indexes

\* storage.ts:74 and 152: indexes.filter(i => i.namespace !== namespace)
FilteredIndexes(indexes, ns) == SelectSeq(indexes, LAMBDA i : i.namespace # ns)

\* storage.ts:40: indexes.find(i => i.namespace === namespace) || null
FindEntry(indexes, ns) ==
  IF FindIndex(indexes, ns) = 0 THEN NoRecord ELSE indexes[FindIndex(indexes, ns)]

\* What a call returned: kind "list" (getIndexes), "index" (getIndex, with
\* NoRecord for null) or "void"; done tells whether the adapter's method
\* ran to its end without throwing.
Returned(kind, list, rec, done) == [kind |-> kind, list |-> list, rec |-> rec, done |-> done]
NothingReturned == Returned("none", <<>>, NoRecord, FALSE)

\* Mutant: the exported function lets the adapter's error out.
Caught_Rethrown(kind) == Returned("rejected", <<>>, NoRecord, FALSE)

\* storage.ts:201-204, 216-219, 231-234 and 246-249: the exported function
\* catches what the adapter threw and returns [], null or nothing
Caught(kind) == Returned(kind, <<>>, NoRecord, FALSE)

\* app/api/indexes/route.ts:4-43: what GET, POST and DELETE answer once the
\* call of the exported function has settled
IndexesRouteAnswer(op, ret) ==
  IF op = "getIndexes"
  THEN [status |-> 200, indexes |-> IF ret.kind = "rejected" THEN <<>> ELSE ret.list,
        success |-> TRUE, warning |-> FALSE]
  ELSE [status |-> 200, indexes |-> <<>>, success |-> TRUE,
        warning |-> ret.kind = "rejected"]

NoCall == [op |-> "none", index |-> NoRecord]

\* useStorage.ts:8: the component is not rendered yet
HookUnmounted == [mounted |-> FALSE, indexes |-> <<>>, call |-> NoCall]

StoreIdle ==
  /\ storage = "null"
  /\ spc = [p \in Callers |-> "idle"]
  /\ scall = [p \in Callers |-> NoCall]
  /\ sidx = [p \in Callers |-> <<>>]
  /\ sret = [p \in Callers |-> NothingReturned]
  /\ ioErrors = 0 /\ calls = 0
  /\ hook = HookUnmounted

\* No storage at all: the state of the parts that do not use lib/storage.ts.
StoreUnused ==
  /\ redisEnv = [url |-> Undefined, token |-> Undefined]
  /\ localItem = <<>> /\ redisList = <<>> /\ redisRecs = StoredRecs(0)
  /\ StoreIdle

\* The call of caller p ends and returns r.
Return_(p, r) ==
  /\ sret' = [sret EXCEPT ![p] = r]
  /\ spc' = [spc EXCEPT ![p] = "idle"]

\* An operation on Redis or localStorage may throw.
MayThrow == ioErrors < MaxErrors
Thrown == ioErrors' = ioErrors + 1

\* storage.ts:192-250: an exported function is called; it runs up to its
\* first await on the store, or returns.
Begin(p, op, idx) ==
  /\ calls < MaxCalls /\ ~hook.mounted
  /\ calls' = calls + 1
  /\ storage' = getStorage
  /\ scall' = [scall EXCEPT ![p] = [op |-> op, index |-> idx]]
  /\ UNCHANGED <<redisEnv, localItem, redisList, redisRecs, ioErrors, hook>>
  /\ CASE getStorage = "null" ->
            \* storage.ts:194-197, 209-212, 224-227, 239-242
            /\ Return_(p, CASE op = "getIndexes" -> Returned("list", <<>>, NoRecord, FALSE)
                            [] op = "getIndex" -> Returned("index", <<>>, NoRecord, FALSE)
                            [] OTHER -> Returned("void", <<>>, NoRecord, FALSE))
            /\ UNCHANGED sidx
       [] getStorage = "local" ->
            \* storage.ts:26-41: localStorage is read at once
            CASE onServer ->
                   \* storage.ts:27, 44-46 and 69-71: there is no window
                   /\ Return_(p, CASE op = "getIndexes" -> Returned("list", <<>>, NoRecord, TRUE)
                                   [] op = "getIndex" -> Returned("index", <<>>, NoRecord, TRUE)
                                   [] OTHER -> Caught("void"))
                   /\ UNCHANGED sidx
              [] op = "getIndexes" ->
                   /\ Return_(p, Returned("list", localItem, NoRecord, TRUE))
                   /\ UNCHANGED sidx
              [] op = "getIndex" ->
                   /\ Return_(p, Returned("index", <<>>, FindEntry(localItem, idx.namespace), TRUE))
                   /\ UNCHANGED sidx
              [] OTHER ->
                   \* storage.ts:48 and 73: await this.getIndexes()
                   /\ sidx' = [sidx EXCEPT ![p] = localItem]
                   /\ spc' = [spc EXCEPT ![p] = "write"]
                   /\ UNCHANGED sret
       [] getStorage = "redis" ->
            /\ spc' = [spc EXCEPT ![p] =
                         CASE op = "getIndexes" -> "get"
                           [] op = "getIndex" -> "getrec"
                           [] op = "saveIndex" -> "setrec"
                           [] OTHER -> "delrec"]
            /\ UNCHANGED <<sidx, sret>>

\* The calls that can be made: getIndexes(), and the other three with an
\* index or a namespace.
CallInputs ==
  {[op |-> "getIndexes", index |-> NoRecord]}
    \cup [op : {"getIndex", "saveIndex", "deleteIndex"},
          index : {IndexMetadata(ns, 1) : ns \in CallNamespaces}]

\* The calls that change the store.
WriteInputs == {c \in CallInputs : c.op \in {"saveIndex", "deleteIndex"}}

\* Calls are made one after the other: none is in flight when one starts.
CallSequential ==
  /\ \A q \in Callers : spc[q] = "idle"
  /\ \E c \in CallInputs : Begin(1, c.op, c.index)
  /\ UNCHANGED frameS

\* A request's saveIndex or deleteIndex starts while another caller's call
\* is in flight.
CallConcurrent ==
  /\ \E p \in Callers :
       /\ spc[p] = "idle"
       /\ \E q \in Callers : spc[q] # "idle"
       /\ \A q \in Callers : q < p => spc[q] # "idle"
       /\ \E c \in WriteInputs : Begin(p, c.op, c.index)
  /\ UNCHANGED frameS

\* storage.ts:101-109: RedisStorageAdapter.getIndexes answers
RedisGetIndexes ==
  /\ \E p \in Callers :
       /\ spc[p] = "get"
       /\ \/ Return_(p, Returned("list", redisList, NoRecord, TRUE)) /\ UNCHANGED ioErrors
          \/ MayThrow /\ Thrown /\ Return_(p, Returned("list", <<>>, NoRecord, FALSE))
  /\ UNCHANGED <<frameS, hook, redisEnv, storage, localItem, redisList, redisRecs, scall, sidx, calls>>

\* storage.ts:111-119: RedisStorageAdapter.getIndex answers
RedisGetIndex ==
  /\ \E p \in Callers :
       /\ spc[p] = "getrec"
       /\ \/ /\ Return_(p, Returned("index", <<>>, redisRecs[scall[p].index.namespace], TRUE))
             /\ UNCHANGED ioErrors
          \/ MayThrow /\ Thrown /\ Return_(p, Returned("index", <<>>, NoRecord, FALSE))
  /\ UNCHANGED <<frameS, hook, redisEnv, storage, localItem, redisList, redisRecs, scall, sidx, calls>>

\* storage.ts:124 and 148: the per-namespace record is set or deleted
RedisWriteRecord ==
  /\ \E p \in Callers :
       /\ spc[p] \in {"setrec", "delrec"}
       /\ \/ /\ redisRecs' = [redisRecs EXCEPT ![scall[p].index.namespace] =
                                IF spc[p] = "setrec" THEN scall[p].index ELSE NoRecord]
             /\ spc' = [spc EXCEPT ![p] = "read"]
             /\ UNCHANGED <<sret, ioErrors>>
          \/ /\ MayThrow /\ Thrown
             /\ Return_(p, Caught("void"))
             /\ UNCHANGED redisRecs
  /\ UNCHANGED <<frameS, hook, redisEnv, storage, localItem, redisList, scall, sidx, calls>>

\* storage.ts:127 and 151: const indexes = await this.getIndexes()
RedisReadList ==
  /\ \E p \in Callers :
       /\ spc[p] = "read"
       /\ \/ sidx' = [sidx EXCEPT ![p] = redisList] /\ UNCHANGED ioErrors
          \/ MayThrow /\ Thrown /\ sidx' = [sidx EXCEPT ![p] = <<>>]
       /\ spc' = [spc EXCEPT ![p] = "write"]
  /\ UNCHANGED <<frameS, hook, redisEnv, storage, localItem, redisList, redisRecs, scall, sret, calls>>

\* What saveIndex or deleteIndex writes back.
NewList(p) ==
  IF scall[p].op = "saveIndex" THEN LimitedIndexes(sidx[p], scall[p].index)
  ELSE FilteredIndexes(sidx[p], scall[p].index.namespace)

\* storage.ts:138 and 153 (Redis), 61 and 77 (localStorage): the list is
\* written back
WriteList ==
  /\ \E p \in Callers :
       /\ spc[p] = "write"
       /\ \/ /\ IF storage = "redis"
                THEN redisList' = NewList(p) /\ UNCHANGED localItem
                ELSE localItem' = NewList(p) /\ UNCHANGED redisList
             /\ Return_(p, Returned("void", <<>>, NoRecord, TRUE))
             /\ UNCHANGED ioErrors
          \/ /\ MayThrow /\ Thrown
             /\ Return_(p, Caught("void"))
             /\ UNCHANGED <<redisList, localItem>>
  /\ UNCHANGED <<frameS, hook, redisEnv, storage, redisRecs, scall, sidx, calls>>

StoreStep ==
  \/ RedisGetIndexes
  \/ RedisGetIndex
  \/ RedisWriteRecord
  \/ RedisReadList
  \/ WriteList

(* hooks/useStorage.ts: the pages' access to the list, in the browser *)

\* useStorage.ts:12-36 and 96-98: the effect run on mount reads the list
\* from localStorage into the component's state.
HookFetchIndexes ==
  /\ ~onServer /\ ~RedisConfigured /\ storage = "null" /\ ~hook.mounted
  /\ hook' = [mounted |-> TRUE, indexes |-> localItem, call |-> NoCall]
  /\ UNCHANGED <<frameS, redisEnv, storage, localItem, redisList, redisRecs,
                 spc, scall, sidx, sret, ioErrors, calls>>

\* useStorage.ts:52-67: saveIndex on the component's state and localStorage
HookSaveIndex ==
  /\ hook.mounted /\ calls < MaxCalls
  /\ \E c \in {w \in WriteInputs : w.op = "saveIndex"} :
       LET limitedIndexes == LimitedIndexes(hook.indexes, c.index) IN
       /\ localItem' = limitedIndexes
       /\ hook' = [hook EXCEPT !.indexes = limitedIndexes, !.call = c]
  /\ calls' = calls + 1
  /\ UNCHANGED <<frameS, redisEnv, storage, redisList, redisRecs,
                 spc, scall, sidx, sret, ioErrors>>

\* useStorage.ts:85-90: deleteIndex on the component's state and localStorage
HookDeleteIndex ==
  /\ hook.mounted /\ calls < MaxCalls
  /\ \E c \in {w \in WriteInputs : w.op = "deleteIndex"} :
       LET filteredIndexes == FilteredIndexes(hook.indexes, c.index.namespace) IN
       /\ localItem' = filteredIndexes
       /\ hook' = [hook EXCEPT !.indexes = filteredIndexes, !.call = c]
  /\ calls' = calls + 1
  /\ UNCHANGED <<frameS, redisEnv, storage, redisList, redisRecs,
                 spc, scall, sidx, sret, ioErrors>>

HookStep == HookFetchIndexes \/ HookSaveIndex \/ HookDeleteIndex

\* The sizes the stored list starts with: empty, one short of full, and full.
StartSizes == {0, MaxIndexes - 1, MaxIndexes}

RedisEnvs == [url : {Undefined, "set"}, token : {Undefined, "set"}]

\* A deployment: on the server or in the browser (where process.env holds no
\* Redis settings), with the metadata saved so far in the store in use.
InitStore ==
  /\ env = [c \in CredNames |-> Undefined]
  /\ onServer \in BOOLEAN
  /\ aiResult = NotCalled
  /\ index = <<>>
  /\ QueryIdle
  /\ ChatIdle
  /\ redisEnv \in RedisEnvs
  /\ ~onServer => redisEnv = [url |-> Undefined, token |-> Undefined]
  /\ \E n \in StartSizes :
       /\ redisList = IF RedisConfigured THEN StoredList(n) ELSE <<>>
       /\ redisRecs = IF RedisConfigured THEN StoredRecs(n) ELSE StoredRecs(0)
       /\ localItem = IF ~RedisConfigured /\ ~onServer THEN StoredList(n) ELSE <<>>
  /\ StoreIdle
  /\ CrawlUnused

NextStore == CallSequential \/ StoreStep \/ HookStep

\* Calls made one after the other.
SpecStore == InitStore /\ [][NextStore]_vars

NextStoreRace == CallSequential \/ CallConcurrent \/ StoreStep \/ HookStep

\* Calls that may overlap, as those of concurrent requests do.
SpecStoreRace == InitStore /\ [][NextStoreRace]_vars

---------------------------------------------------------------------------
(* Specifications *)

ProvIdle == onServer = TRUE /\ aiResult = NotCalled

\* Environments in which each credential is either unset or set.
PlainEnvs == {e \in Envs : \A c \in CredNames : e[c] \in {Undefined, "key"}}

InitProvider ==
  /\ env \in Envs
  /\ onServer \in BOOLEAN
  /\ aiResult = NotCalled
  /\ index = <<>>
  /\ QueryIdle
  /\ ChatIdle
  /\ StoreUnused
  /\ CrawlUnused

NextProvider == CallGetAIModel

SpecProvider == InitProvider /\ [][NextProvider]_vars

InitQuery ==
  /\ env \in PlainEnvs
  /\ ProvIdle
  /\ index = IndexOf(NumDocs)
  /\ QueryIdle
  /\ ChatIdle
  /\ StoreUnused
  /\ CrawlUnused

NextQuery == QueryRequest \/ QueryStep

SpecQuery == InitQuery /\ [][NextQuery]_vars

\* Environments the chat endpoint is run in: no credential, or exactly one.
ChatEnvs == {e \in PlainEnvs : Cardinality({c \in CredNames : Truthy(e[c])}) <= 1}

InitChat ==
  /\ env \in ChatEnvs
  /\ ProvIdle
  /\ index = IndexOf(SmallDocs)
  /\ QueryIdle
  /\ ChatIdle
  /\ StoreUnused
  /\ CrawlUnused

NextChat ==
  ChatPostMain \/ ChatPostGoogle \/ ChatStep \/ MainTransformAbort \/ QueryStep

SpecChat == InitChat /\ [][NextChat]_vars

\* Every handler runs on: an awaited call returns and a stream is read on,
\* unless the connection breaks (MainTransformAbort, which nothing forces).
FairChat == InitChat /\ [][NextChat]_vars /\ WF_vars(ChatStep) /\ WF_vars(QueryStep)

\* The create route, and the request the dashboard shows for a new chatbot.
InitCreate ==
  /\ env = [c \in CredNames |-> Undefined]
  /\ ProvIdle
  /\ index = IndexOf(SmallDocs)
  /\ QueryIdle
  /\ ChatIdle
  /\ StoreUnused
  /\ kenv \in KEnvs
  /\ CreateIdle
  /\ ScrapeIdle

NextCreate == CreatePost \/ CreateStep \/ DashboardRequest

SpecCreate == InitCreate /\ [][NextCreate]_vars

\* Requests counted for every ip before the first one of a behaviour.
StartCounts == {0, ScrapeLimit - 1, ScrapeLimit}

InitScrape ==
  /\ env = [c \in CredNames |-> Undefined]
  /\ ProvIdle
  /\ index = <<>>
  /\ QueryIdle
  /\ ChatIdle
  /\ redisEnv \in RedisEnvs
  /\ localItem = <<>> /\ redisList = <<>> /\ redisRecs = StoredRecs(0)
  /\ StoreIdle
  /\ kenv \in {e \in KEnvs : e["DISABLE_CHATBOT_CREATION"] = Undefined
                           /\ e["FIRESTARTER_DISABLE_CREATION_DASHBOARD"] = Undefined}
  /\ CreateIdle
  /\ \E n \in StartCounts : limiter = [ip \in Ips |-> n]
  /\ rpc = "idle" /\ rreq = NoScrapeRequest
  /\ rres = ScrapeResponse(0, NoRateLimitHeaders) /\ scrapes = <<>>

NextScrape == ScrapePost \/ FirecrawlAnswer

SpecScrape == InitScrape /\ [][NextScrape]_vars

---------------------------------------------------------------------------
(* Claims about provider selection *)

\* The documented priority list, highest priority first.
PriorityOrder == <<"openai", "anthropic", "google", "groq">>

CredOf(p) == CASE p = "openai"    -> "OPENAI_API_KEY"
               [] p = "anthropic" -> "ANTHROPIC_API_KEY"
               [] p = "google"    -> "GOOGLE_AI_STUDIO_API_KEY"
               [] p = "groq"      -> "GROQ_API_KEY"

SomeCredSet(e) == \E c \in CredNames : Truthy(e[c])

\* Position in PriorityOrder of the first provider whose credential is set.
FirstSet(e) ==
  CHOOSE i \in 1..Len(PriorityOrder) :
    /\ Truthy(e[CredOf(PriorityOrder[i])])
    /\ \A j \in 1..(i - 1) : ~Truthy(e[CredOf(PriorityOrder[j])])

\* Two environments agree on every credential of priority i or higher.
AgreeDownTo(e1, e2, i) ==
  \A j \in 1..i : Truthy(e1[CredOf(PriorityOrder[j])]) = Truthy(e2[CredOf(PriorityOrder[j])])

C2_ThrowsWhenNone ==
  (aiResult # NotCalled /\ onServer /\ ~SomeCredSet(env)) =>
    /\ aiResult.kind = "throw"
    /\ Head(aiResult.message) = "No AI provider configured"

C2_Witness ==
  /\ aiResult # NotCalled /\ onServer /\ ~SomeCredSet(env)
  /\ env["GROQ_API_KEY"] = "" /\ env["OPENAI_API_KEY"] = Undefined
  /\ aiResult.kind = "throw"

---------------------------------------------------------------------------
(* Claims about the chat-completions endpoint *)

NoProviderHeader(h) == h.google = NoHeader /\ h.groq = NoHeader /\ h.openai = NoHeader

FetchesTo(to) == SelectSeq(fetches, LAMBDA f : f.to = to)

\* C3: a POST with no provider-selection header whose model is absent or does
\* not start with 'firecrawl-' is answered with status 400, and no request
\* goes to an LLM provider or to the query route (in either copy of the
\* handler).
C3_BadModel400 ==
  (cpc # "idle" /\ NoProviderHeader(creq.headers) /\ ~StartsWithFirecrawl(creq.model)) =>
    /\ cres.status = 400
    /\ fetches = <<>>
    /\ qpc = "idle" /\ llmCalls = 0

C3_Witness ==
  /\ creq.handler = "main" /\ NoProviderHeader(creq.headers)
  /\ creq.model = <<"g", "p", "t", "-", "4", "o">> /\ creq.messages = <<>>
  /\ cres.status = 400 /\ cpc = "done"

FirecrawlStream == creq.handler = "main" /\ cres.stream /\ FetchesTo("query") # <<>>

IsContentChunk(c) == c.kind = "chunk" /\ c.hasContent /\ c.role = "none" /\ c.finish = "null"
IsInitialChunk(c) == c.kind = "chunk" /\ c.role = "assistant" /\ c.finish = "null"
IsFinalChunk(c) == c.kind = "chunk" /\ c.finish = "stop"
IsDone(c) == c.kind = "[DONE]"

\* The stream so far: the initial chunk, content chunks, and - once closed -
\* one final chunk and [DONE] as the last two entries.
StreamWellFormed ==
  FirecrawlStream =>
    /\ out # <<>> /\ IsInitialChunk(out[1])
    /\ LET body == IF cclosed = "closed" THEN SubSeq(out, 2, Len(out) - 2)
                   ELSE SubSeq(out, 2, Len(out))
       IN \A i \in 1..Len(body) : IsContentChunk(body[i])
    /\ cclosed = "closed" =>
         /\ Len(out) >= 3
         /\ IsFinalChunk(out[Len(out) - 1])
         /\ IsDone(out[Len(out)])
    /\ cclosed \in {"open", "closed", "errored"}

LastIsDone == out # <<>> /\ IsDone(out[Len(out)])

\* Once [DONE] is written, or the stream is closed, nothing more is written.
NothingAfterDone ==
  (FirecrawlStream /\ (cclosed = "closed" \/ LastIsDone)) =>
    (out' = out /\ cclosed' = cclosed)

\* C8: the stream of a 'firecrawl-' request is the initial chunk (role
\* 'assistant'), content chunks with finish_reason null, exactly one chunk
\* with finish_reason 'stop', then [DONE], then the close; nothing follows
\* [DONE]; and a stream whose connection does not break reaches [DONE].
C8_StreamShape ==
  /\ []StreamWellFormed
  /\ [][NothingAfterDone]_vars
  /\ (cpc = "transform") ~>
       (cclosed = "errored" \/ (cclosed = "closed" /\ LastIsDone))

\* The query route streamed LLM text and the endpoint's stream is closed.
C8_Witness ==
  /\ FirecrawlStream /\ cclosed = "closed" /\ qchunks = MaxChunks
  /\ LastIsDone /\ IsFinalChunk(out[Len(out) - 1])

RECURSIVE ConcatContent(_)
\* delta.content of the chunks, concatenated
ConcatContent(chunks) ==
  IF chunks = <<>> THEN <<>>
  ELSE (IF Head(chunks).kind = "chunk" /\ Head(chunks).hasContent
        THEN Head(chunks).content ELSE <<>>) \o ConcatContent(Tail(chunks))

RECURSIVE StreamedContent(_)
\* the content of the 'content' events of a body, concatenated
StreamedContent(toks) ==
  IF toks = <<>> THEN <<>>
  ELSE (IF Head(toks).t = "line" /\ Head(toks).json.kind = "content"
        THEN Head(toks).json.text ELSE <<>>) \o StreamedContent(Tail(toks))

\* C9: for a streaming 'firecrawl-' request the text the query route
\* streamed reaches the client: the concatenated delta.content equals the
\* concatenated content of the query route's content events.
C9_ContentCarried ==
  (FirecrawlStream /\ cclosed = "closed") =>
    ConcatContent(out) = StreamedContent(qbody)

---------------------------------------------------------------------------
(* Claims about the query route *)

RECURSIVE EventSources(_)
\* the entries of every sources event written to a body
EventSources(toks) ==
  IF toks = <<>> THEN <<>>
  ELSE (IF Head(toks).t = "line" THEN Head(toks).json.sources ELSE <<>>)
       \o EventSources(Tail(toks))

\* C6: every document kept by the route, every piece of the context and
\* every entry of the sources (in the JSON answer and in the sources event)
\* comes from a document whose metadata.namespace is the requested one, on
\* the primary and on the fallback path, whatever the search returned.
C6_NamespaceIsolation ==
  /\ \A i \in 1..Len(documents) : documents[i].namespace = qreq.namespace
  /\ \A i \in 1..Len(context) : index[context[i].doc].namespace = qreq.namespace
  /\ \A i \in 1..Len(docsToUse) : index[docsToUse[i].doc].namespace = qreq.namespace
  /\ \A i \in 1..Len(qres.payload.sources) :
       index[qres.payload.sources[i].doc].namespace = qreq.namespace
  /\ LET srcs == EventSources(qbody) IN
     \A i \in 1..Len(srcs) : index[srcs[i].doc].namespace = qreq.namespace

\* The fallback search returned foreign documents, and sources were answered.
C6_Witness ==
  /\ usedFallback /\ sawForeign /\ qpc = "done"
  /\ Len(qres.payload.sources) > 1 /\ Len(context) > 1

ContextDocIds == {context[i].doc : i \in 1..Len(context)}

\* C7: the context sent to the LLM is built from at most 10 documents, the
\* 10 highest-scored ones, each contributing at most 1500 characters of its
\* content followed by an ellipsis.
C7_BoundedContext ==
  /\ qpc \in {"completion", "streaming"} => context # <<>>
  /\ context # <<>> =>
       /\ Len(context) = Min(10, Len(documents))
       /\ \A i \in 1..Len(context) :
            /\ context[i].chars <= 1500
            /\ context[i].chars = Min(Transform(index[context[i].doc]).contentLen, 1500)
            /\ context[i].ellipsis
       /\ \A i \in 1..Len(documents) : \A j \in 1..Len(context) :
            documents[i].id \notin ContextDocIds =>
              documents[i].score <= index[context[j].doc].score

\* More than 10 documents found, one of them longer than 1500 characters.
C7_Witness ==
  /\ qpc = "completion" /\ Len(documents) > 10 /\ Len(context) = 10
  /\ \E i \in 1..Len(context) :
       context[i].chars = 1500 /\ Transform(index[context[i].doc]).contentLen > 1500

\* C10: when documents exist for the namespace and at least one provider
\* credential is configured, the route turns to the LLM and does not answer
\* 'AI service is not configured'.
C10_AnyProviderAnswers ==
  (qres.status # 0 /\ Len(documents) > 0 /\ SomeCredSet(env)) =>
    /\ qres.payload.kind # "notConfigured"
    /\ llmCalls > 0

---------------------------------------------------------------------------
(* Claims about index metadata storage *)

\* The list getIndexes reads: the one in the store the deployment uses.
StoredIndexes == IF RedisConfigured THEN redisList ELSE localItem

\* Caller p's call has returned.
Completed(p, op) == spc[p] = "idle" /\ scall[p].op = op /\ sret[p].kind # "none"

\* C11: the adapter is the Redis one exactly when both Redis settings are set
\* and otherwise, in the browser, the localStorage one, and each call touches
\* only its adapter's store; on the server without Redis there is no adapter:
\* getIndexes returns [], getIndex returns null, and saveIndex and deleteIndex
\* change nothing.
C11_AdapterChoice ==
  /\ [](/\ storage = "redis" => RedisConfigured
        /\ storage = "local" => ~RedisConfigured /\ ~onServer
        /\ (calls > 0 /\ ~hook.mounted) =>
             storage = (IF RedisConfigured THEN "redis"
                        ELSE IF onServer THEN "null" ELSE "local")
        /\ (onServer /\ ~RedisConfigured) =>
             \A p \in Callers :
               /\ Completed(p, "getIndexes") => sret[p] = Returned("list", <<>>, NoRecord, FALSE)
               /\ Completed(p, "getIndex") => sret[p] = Returned("index", <<>>, NoRecord, FALSE)
               /\ spc[p] = "idle")
  /\ [][/\ RedisConfigured => localItem' = localItem
        /\ ~RedisConfigured => redisList' = redisList /\ redisRecs' = redisRecs
        /\ (onServer /\ ~RedisConfigured) =>
             UNCHANGED <<localItem, redisList, redisRecs>>]_vars

\* On the server with only the URL set, a saveIndex call has returned.
C11_Witness ==
  /\ onServer /\ redisEnv.url = "set" /\ redisEnv.token = Undefined
  /\ Completed(1, "saveIndex") /\ storage = "null" /\ StoredIndexes = <<>>

\* Caller p's deleteIndex(ns) writes the list back in this step.
DeleteWrites(p, ns) ==
  /\ spc[p] = "write" /\ spc'[p] = "idle"
  /\ scall[p].op = "deleteIndex" /\ scall[p].index.namespace = ns

\* Caller p's saveIndex of a namespace the full list does not hold writes the
\* list back in this step, which drops the list's last entry, that of ns.
SaveEvicts(p, ns) ==
  /\ spc[p] = "write" /\ spc'[p] = "idle"
  /\ scall[p].op = "saveIndex"
  /\ scall[p].index.namespace \notin NamespacesOf(sidx[p])
  /\ Len(sidx[p]) = MaxIndexes
  /\ sidx[p][MaxIndexes].namespace = ns

\* The component's deleteIndex(ns) runs in this step.
HookDeletes(ns) ==
  /\ hook.mounted /\ calls' = calls + 1
  /\ hook'.call.op = "deleteIndex" /\ hook'.call.index.namespace = ns

\* The component's saveIndex of a new namespace runs in this step on a full
\* list whose last entry is that of ns.
HookEvicts(ns) ==
  /\ hook.mounted /\ calls' = calls + 1
  /\ hook'.call.op = "saveIndex"
  /\ hook'.call.index.namespace \notin NamespacesOf(hook.indexes)
  /\ Len(hook.indexes) = MaxIndexes
  /\ hook.indexes[MaxIndexes].namespace = ns

SaveWrites(p) ==
  /\ spc[p] = "write" /\ spc'[p] = "idle" /\ sret'[p].done
  /\ scall[p].op = "saveIndex"

\* C17: the stored list never holds more than 50 entries, on either adapter;
\* when a new namespace is saved into a list of 50, the list written is the
\* new entry followed by the first 49 of the old ones: the entry dropped is
\* the one at the end of the list.
C17_AtMostFifty ==
  /\ [](Len(redisList) <= 50 /\ Len(localItem) <= 50)
  /\ [][\A p \in Callers :
          (SaveWrites(p) /\ Len(sidx[p]) = 50
             /\ scall[p].index.namespace \notin NamespacesOf(sidx[p]))
          => StoredIndexes' = <<scall[p].index>> \o SubSeq(sidx[p], 1, 49)]_vars

\* A new namespace was saved into a full list; the oldest entry is gone.
C17_Witness ==
  /\ Completed(1, "saveIndex") /\ sret[1].done
  /\ Len(StoredIndexes) = 50
  /\ StoredIndexes[1].namespace = MaxIndexes + 1
  /\ 1 \notin NamespacesOf(StoredIndexes)
  /\ StoredIndexes[50].namespace = 2

NoDuplicates(list) ==
  \A i, j \in 1..Len(list) : list[i].namespace = list[j].namespace => i = j

NamespaceSeq(list) == [i \in 1..Len(list) |-> list[i].namespace]

\* The component's saveIndex runs in this step.
HookSaves == hook.mounted /\ calls' = calls + 1 /\ hook'.call.op = "saveIndex"

\* The index a saveIndex that writes in this step was called with.
SavedNow ==
  {scall[p].index : p \in {q \in Callers : SaveWrites(q) /\ ioErrors' = 0}}
    \cup (IF HookSaves THEN {hook'.call.index} ELSE {})

C19_RecordsAgreeWithList ==
  (RedisConfigured /\ ioErrors = 0 /\ \A p \in Callers : spc[p] = "idle") =>
    \A ns \in Namespaces :
      (redisRecs[ns] # NoRecord) <=> (ns \in NamespacesOf(redisList))

\* C20: two saveIndex calls on the Redis adapter for different namespaces,
\* the only calls made, have both returned without a failure, and the list is
\* not full: then the list holds both namespaces, however their steps were
\* interleaved.
C20_ConcurrentSavesBothKept ==
  (/\ RedisConfigured /\ ioErrors = 0 /\ calls = 2
   /\ Completed(1, "saveIndex") /\ Completed(2, "saveIndex")
   /\ sret[1].done /\ sret[2].done
   /\ scall[1].index.namespace # scall[2].index.namespace
   /\ Len(redisList) < MaxIndexes) =>
    {scall[1].index.namespace, scall[2].index.namespace} \subseteq NamespacesOf(redisList)

\* Several create requests at a time, on the server that has the API key.
InitCreateRace ==
  /\ env = [c \in CredNames |-> Undefined]
  /\ ProvIdle
  /\ index = <<>>
  /\ QueryIdle
  /\ ChatIdle
  /\ StoreUnused
  /\ kenv = [[v \in KEnvNames |-> Undefined] EXCEPT !["FIRECRAWL_API_KEY"] = "key"]
  /\ CreateIdle
  /\ ScrapeIdle

NextCreateRace == Tick \/ RaceStep

SpecCreateRace == InitCreateRace /\ [][NextCreateRace]_vars

---------------------------------------------------------------------------
(* Claims about the create route, the dashboard's model name and the       *)
(* scrape route                                                             *)

\* C13: for a namespace the create route has produced, the model name the
\* dashboard shows ('firecrawl-' followed by the namespace) is mapped back to
\* that namespace by the chat-completions endpoint, which sends it to the
\* query route as the namespace of the request.
C13_ModelNameRoundTrip ==
  [][(cpc = "idle" /\ cpc' # "idle") =>
       /\ \E h \in HostInputs, t \in TimestampInputs : kres.namespace = Namespace(h, t)
       /\ creq'.model = ModelName(kres.namespace)
       /\ NamespaceOf(creq'.model) = kres.namespace
       /\ cpc' = "await-query"
       /\ fetches' = Append(fetches, [to |-> "query", model |-> creq'.model,
                                      stream |-> creq'.stream])
       /\ qreq'.namespace = kres.namespace]_vars

C13_Witness ==
  /\ cpc = "await-query" /\ qpc = "search"
  /\ kres.status = 200
  /\ kres.namespace = <<"w", "-", "a", "-", "b", "-", "1", "2">>
  /\ qreq.namespace = kres.namespace

\* Creation is disabled in the configuration the handler h is written for.
DisabledByConfiguration(h) ==
  \/ h = "part_003" /\ kenv["DISABLE_CHATBOT_CREATION"] = "true"
  \/ h \in {"part_002", "part_002b"} /\ kenv["FIRESTARTER_DISABLE_CREATION_DASHBOARD"] = "true"

C15_XUseGoogleServedByGemini ==
  (cpc # "idle" /\ creq.headers.xUseGoogle = "true"
   /\ Truthy(env["GOOGLE_AI_STUDIO_API_KEY"])) =>
    \E i \in 1..Len(fetches) :
      fetches[i].to = "google" /\ fetches[i].model = <<"gemini-2.5-flash">>

\* C16: on a server with the limiter's Redis variables set, a POST to the
\* scrape route from an ip that is over the limit of the window is answered
\* with status 429 and the two X-RateLimit headers, and no call of Firecrawl
\* is made for it.
C16_OverLimitAnswered429 ==
  (rpc # "idle" /\ onServer /\ Truthy(redisEnv.url) /\ Truthy(redisEnv.token)
   /\ limiter[ClientIp(rreq.headers)] > ScrapeLimit) =>
    /\ rpc = "done" /\ rres.status = 429
    /\ rres.headers = [limit |-> Decimal(ScrapeLimit), remaining |-> Decimal(0)]
    /\ \A i \in 1..Len(scrapes) : scrapes[i].n # rreq.n


---------------------------------------------------------------------------
(* Further claims about index metadata storage *)

\* What getIndex(ns) returns from the store as it stands.
StoredIndex(ns) ==
  IF RedisConfigured THEN redisRecs[ns] ELSE FindEntry(localItem, ns)

\* The namespaces a deleteIndex that writes the list in this step, without a
\* failure of the store during the call, was called with.
DeletedNow ==
  {scall[p].index.namespace :
     p \in {q \in Callers : /\ DeleteWrites(q, scall[q].index.namespace)
                            /\ sret'[q].done /\ ioErrors' = 0}}
    \cup {ns \in Namespaces : HookDeletes(ns)}

\* The number of entries of namespace ns among the first n of the list.
Before(list, ns, n) == Cardinality({j \in 1..n : list[j].namespace = ns})

C22_ExportedFunctionsNeverReject ==
  \A p \in Callers :
    /\ sret[p].kind # "rejected"
    /\ \A op \in {"getIndexes", "getIndex", "saveIndex", "deleteIndex"} :
         Completed(p, op) =>
           /\ sret[p].kind = (CASE op = "getIndexes" -> "list"
                                [] op = "getIndex" -> "index"
                                [] OTHER -> "void")
           /\ ~sret[p].done => sret[p].list = <<>> /\ sret[p].rec = NoRecord
           /\ LET answer == IndexesRouteAnswer(op, sret[p])
              IN answer.status = 200 /\ answer.success /\ ~answer.warning

\* Redis failed while saveIndex set the per-namespace record: the call has
\* returned and nothing was persisted.
C22_Witness ==
  /\ RedisConfigured /\ ioErrors = 1
  /\ Completed(1, "saveIndex") /\ ~sret[1].done
  /\ scall[1].index.namespace \notin NamespacesOf(redisList)
  /\ redisRecs[scall[1].index.namespace] = NoRecord


---------------------------------------------------------------------------
(* Further claims about the query route *)

\* The events of a streamed body, in order.
EventsOf(body) ==
  LET lines == SelectSeq(body, LAMBDA tok : tok.t = "line")
  IN [i \in 1..Len(lines) |-> lines[i].json]

Terminal(ev) == ev.kind \in {"done", "error"}

\* C23: the body of a streamed response of the query route is one 'sources'
\* event, then 'content' events whose content is not empty, then one 'done'
\* or 'error' event with which the stream is closed; nothing is written to a
\* closed stream. This holds with and without documents.
C23_StreamWellFormed ==
  /\ [](qres.stream =>
          LET evs == EventsOf(qbody) IN
          /\ Len(evs) >= 1 /\ evs[1].kind = "sources"
          /\ \A i \in 2..Len(evs) :
               /\ evs[i].kind \in {"content", "done", "error"}
               /\ evs[i].kind = "content" => evs[i].text # <<>>
               /\ Terminal(evs[i]) => i = Len(evs)
          /\ qclosed <=> Terminal(evs[Len(evs)]))
  /\ [][(qres.stream /\ qclosed) => UNCHANGED <<qbody, qclosed>>]_vars


\* A closed stream about found documents: sources, two pieces of content, and
\* the error event of a stream that broke off.
C23_Witness ==
  /\ qres.stream /\ qclosed /\ Len(docsToUse) > 0
  /\ LET evs == EventsOf(qbody) IN
     /\ Len(evs) = 4
     /\ evs[2].text = <<"x">> /\ evs[3].text = <<"y">>
     /\ evs[4].kind = "error"


\* route.ts:114: the searches are over (or one threw) for a request that
\* passed the check of its body, and `documents` is empty.
EndedUpWithoutDocuments ==
  /\ qpc \notin {"idle", "search", "fallback"}
  /\ qreq.query # "" /\ qreq.namespace # <<>>
  /\ documents = <<>>

\* C24: a request for which no document of its namespace is left after the
\* searches, a search that throws included, is answered with status 200, the
\* fixed message and no sources, and no call of the LLM is made.
C24_NoDocumentsFixedAnswer ==
  EndedUpWithoutDocuments =>
    /\ qpc = "done" /\ qclosed
    /\ qres.status = 200
    /\ llmCalls = 0
    /\ LET evs == EventsOf(qbody) IN
       IF qreq.stream
       THEN /\ qres.stream
            /\ evs = <<Event("sources", <<>>, <<>>),
                       Event("content", NoDocsAnswer, <<>>),
                       Event("done", <<>>, <<>>)>>
       ELSE /\ ~qres.stream
            /\ Len(evs) = 1
            /\ evs[1].text = NoDocsAnswer /\ evs[1].sources = <<>>

\* Both searches returned only documents of other namespaces (or the second
\* one threw), and the streamed answer is complete.
C24_Witness ==
  /\ EndedUpWithoutDocuments
  /\ usedFallback /\ sawForeign
  /\ qreq.stream /\ qclosed
  /\ ProviderConfigured(env)


---------------------------------------------------------------------------
(* A further claim about the create route *)

\* The ids of the documents request r has upserted so far.
IdsOf(r) ==
  LET c == creators[r]
      n == IF c.i < c.length THEN c.i ELSE c.length
  IN {DocumentId(c.namespace, j) : j \in 0..(n - 1)}

Succeeded(r) == creators[r].pc = "done" /\ creators[r].status = 200

\* C25: two create requests that succeed have different namespaces, and no
\* document one of them upserted is replaced by a document of the other.
C25_NamespacesUnique ==
  \A r1, r2 \in Creators :
    (r1 # r2 /\ Succeeded(r1) /\ Succeeded(r2)) =>
      /\ creators[r1].namespace # creators[r2].namespace
      /\ \A id \in IdsOf(r1) : [id |-> id, by |-> r1] \in searchDocs


---------------------------------------------------------------------------
(* A further claim about the chat-completions endpoint *)

\* The provider a request's headers select, "none" when they select none,
\* and the environment variable that holds its key.
SelectedByHeader(h) ==
  IF h.groq = "true" THEN "groq" ELSE IF h.openai = "true" THEN "openai" ELSE "none"

KeyName(provider) == IF provider = "groq" THEN "GROQ_API_KEY" ELSE "OPENAI_API_KEY"

\* C26: in the handler of completions/route.ts X-Use-Groq 'true' wins over
\* X-Use-OpenAI 'true' and either wins over the model: every upstream request
\* goes to the selected provider and the query route is not called. When that
\* provider's key is not set the answer is status 500 and no request is sent,
\* whatever other key is set.
C26_HeaderPrecedence ==
  (creq.handler = "main" /\ SelectedByHeader(creq.headers) # "none") =>
    LET provider == SelectedByHeader(creq.headers) IN
    /\ \A i \in 1..Len(fetches) : fetches[i].to = provider
    /\ qpc = "idle" /\ llmCalls = 0
    /\ IF Truthy(env[KeyName(provider)])
       THEN Len(fetches) >= 1
       ELSE /\ fetches = <<>>
            /\ cpc = "done" /\ cres.status = 500 /\ ~cres.stream
            /\ cres.payload.error.code = 500

\* Both headers and a 'firecrawl-' model, on a server that has the OpenAI key
\* but not the Groq key: answered with 500, nothing sent.
C26_Witness ==
  /\ creq.handler = "main"
  /\ creq.headers.groq = "true" /\ creq.headers.openai = "true"
  /\ StartsWithFirecrawl(creq.model)
  /\ ~Truthy(env["GROQ_API_KEY"]) /\ Truthy(env["OPENAI_API_KEY"])
  /\ cres.status = 500 /\ fetches = <<>>

===========================================================================
